---- MODULE Spec2Model ----
(***************************************************************************)
(* A model of the spectacles recommendation core:                          *)
(*   - src/src/face_analysis.py   FaceAnalyzer._calculate_metrics          *)
(*   - src/src/preprocess.py      main (schema and scaler, plain)          *)
(*   - src/src/train.py           main (schema and scaler, interactions)   *)
(*   - src/src/recommend.py       recommend (plain builder)                *)
(*   - src/src/my_recommend.py    recommend (interaction builder)          *)
(*   - src/src/gemini_recommend.py recommend / score_frames (remote)       *)
(*   - src/demo.py                recommendation_pipeline                  *)
(*                                                                         *)
(* Numbers.  Face ratios are carried in units of 10^-4 (the code rounds    *)
(* them to four decimals), frame dimensions in millimetres.  A table is a  *)
(* record [cols, dtype, rows]: the ordered column names, the dtype of each *)
(* column and one function column -> value per row.  Indicator cells are   *)
(* 0/1 whatever their dtype (False == 0 and True == 1 in Python).          *)
(***************************************************************************)
EXTENDS Integers, Sequences, FiniteSets, TLC

VARIABLES
    pc,                 \* position inside the request being served
    variant,            \* which recommend runs: "my_recommend", "recommend", "gemini"
    missing,            \* the files (and settings) of the request that do not exist
    msg,                \* the path the error message of a failed load names
    dummy_dtype,        \* dtype pandas.get_dummies gives indicators: "bool" or "uint8"
    trainer,            \* which script wrote X_columns.json / scaler.joblib
    xcols,              \* data/X_columns.json
    scaler,             \* data/scaler.joblib: [present, fitted]
    frame_catalog,      \* data/frame_catalog.csv
    new_face,           \* the face metrics mapping handed to recommend
    top_k,              \* top_k
    combined,           \* combined (face columns next to catalog columns)
    built,              \* combined_encoded right after get_dummies
    combined_encoded,   \* combined_encoded after alignment
    numeric_cols,       \* the columns handed to scaler.transform
    response,           \* scores_list: the parsed answer of the remote model
    response_text,      \* response.text of the remote model, as a sequence of tokens
    preds,              \* preds / scores, one per catalog row
    order,              \* the row order sort_values produced
    top,                \* the rows recommend returns
    err,                \* "none" or the exception that ended the request
    points,             \* landmark pixel coordinates given to _calculate_metrics
    features,           \* the mapping _calculate_metrics returns
    image,              \* demo: the image handed to recommendation_pipeline
    temp_upload,        \* demo: what the file temp_upload.jpg holds
    extracted,          \* demo: face_features, "None" or "dict" (the mapping is features)
    recommend_calls,    \* demo: how often the request called recommend
    outputs,            \* demo: the pair recommendation_pipeline returned
    df_in,              \* the table handed to create_interaction_features / get_dummies
    df_out,             \* what create_interaction_features of my_recommend.py returned
    df_train_out,       \* what create_interaction_features of train.py returned
    df_dummies,         \* what pd.get_dummies returned
    caller,             \* scraper: who called get_page ("direct" or "find_glasses_pages")
    retries,            \* scraper: the retries argument of get_page
    attempt,            \* scraper: the loop variable of get_page
    outcomes,           \* scraper: the requests of this get_page call, TRUE = no exception
    waits,              \* scraper: the time.sleep arguments of this get_page call
    gp_result,          \* scraper: what get_page returned
    page_num,           \* scraper: page_num of find_glasses_pages
    products_found,     \* scraper: products_found of the page parsed last
    has_next_page,      \* scraper: has_next_page of the page parsed last
    glasses_urls,       \* scraper: the product links collected (by page)
    pause,              \* scraper: seconds slept before the next listing page
    sessions            \* demo: the calls of recommendation_pipeline in flight

recVars == <<variant, missing, msg, dummy_dtype, trainer, xcols, scaler, frame_catalog, new_face,
             top_k, combined, built, combined_encoded, numeric_cols, response_text, response,
             preds, order, top, err>>
faceVars == <<points, features>>
demoVars == <<image, temp_upload, extracted, recommend_calls, outputs>>
interVars == <<df_in, df_out, df_train_out, df_dummies>>
scrapeVars == <<caller, retries, attempt, outcomes, waits, gp_result, page_num,
                products_found, has_next_page, glasses_urls, pause>>
pairVars == <<sessions>>
auxVars == <<interVars, scrapeVars, pairVars>>
vars == <<pc, recVars, faceVars, demoVars, auxVars>>

(***************************************************************************)
(* Bounds of the model.                                                    *)
(***************************************************************************)
MaxRows == 3        \* catalog rows
MaxK == 2           \* top_k ranges over 1..MaxK
MaxResp == 2        \* entries in the remote model's answer

(***************************************************************************)
(* Generic helpers.                                                        *)
(***************************************************************************)
SeqToSet(s) == {s[i] : i \in DOMAIN s}

Min(a, b) == IF a <= b THEN a ELSE b

Max(a, b) == IF a >= b THEN a ELSE b

Abs(a) == IF a < 0 THEN -a ELSE a

RECURSIVE Exp10(_)
Exp10(e) == IF e = 0 THEN 1 ELSE 10 * Exp10(e - 1)

RECURSIVE Flatten(_)
Flatten(ss) == IF ss = <<>> THEN <<>> ELSE Head(ss) \o Flatten(Tail(ss))

Perms(n) == {p \in [1..n -> 1..n] : \A i, j \in 1..n : i # j => p[i] # p[j]}

NoTable == [cols |-> <<>>, dtype |-> <<>>, rows |-> <<>>]

(***************************************************************************)
(* pandas, as far as the code uses it.                                     *)
(***************************************************************************)
\* "c in df.columns"
HasCol(df, c) == c \in SeqToSet(df.cols)

\* df[c] = values: an existing column is overwritten in place, a new one is
\* appended as the last column.
SetCol(df, c, dt, val) ==
    [cols  |-> IF HasCol(df, c) THEN df.cols ELSE Append(df.cols, c),
     dtype |-> [k \in SeqToSet(df.cols) \cup {c} |-> IF k = c THEN dt ELSE df.dtype[k]],
     rows  |-> [i \in DOMAIN df.rows |->
                  [k \in SeqToSet(df.cols) \cup {c} |->
                      IF k = c THEN val[i] ELSE df.rows[i][k]]]]

\* df[names]: the named columns in the order of names
SelectCols(df, names) ==
    [cols  |-> names,
     dtype |-> [k \in SeqToSet(names) |-> df.dtype[k]],
     rows  |-> [i \in DOMAIN df.rows |-> [k \in SeqToSet(names) |-> df.rows[i][k]]]]

\* df.drop(columns=names)
DropCols(df, names) ==
    SelectCols(df, SelectSeq(df.cols, LAMBDA c : c \notin names))

\* select_dtypes(include=['number']).columns: bool and object are not numbers
IsNumber(dt) == dt \in {"float64", "int64", "uint8"}

NumericCols(df) == SelectSeq(df.cols, LAMBDA c : IsNumber(df.dtype[c]))

\* Every category value of the model, in the order pandas sorts the levels.
LevelOrder == <<"Acme", "Black", "Full", "Gold", "Keyhole", "Metal", "Oakley",
                "Plastic", "RayBan", "Rimless", "Saddle">>

\* a missing value (NaN): never a level, get_dummies has dummy_na=False
Null == "NaN"

\* the distinct values observed in column c, sorted
Levels(df, c) ==
    SelectSeq(LevelOrder, LAMBDA v : \E i \in DOMAIN df.rows : df.rows[i][c] = v)

DummyName(c, v) == c \o "_" \o v

\* pd.get_dummies(df, columns=columns, drop_first=True)
GetDummiesDropFirst(df, columns, dt) ==
    LET keep == SelectSeq(df.cols, LAMBDA c : c \notin SeqToSet(columns))
        pair == Flatten([j \in DOMAIN columns |->
                    [l \in DOMAIN Tail(Levels(df, columns[j])) |->
                        <<columns[j], Tail(Levels(df, columns[j]))[l]>>]])
        name == [j \in DOMAIN pair |-> DummyName(pair[j][1], pair[j][2])]
        src(k) == CHOOSE j \in DOMAIN pair : name[j] = k
    IN  [cols  |-> keep \o name,
         dtype |-> [k \in SeqToSet(keep) \cup SeqToSet(name) |->
                      IF k \in SeqToSet(keep) THEN df.dtype[k] ELSE dt],
         rows  |-> [i \in DOMAIN df.rows |->
                      [k \in SeqToSet(keep) \cup SeqToSet(name) |->
                          IF k \in SeqToSet(keep) THEN df.rows[i][k]
                          ELSE IF df.rows[i][pair[src(k)][1]] = pair[src(k)][2]
                               THEN 1 ELSE 0]]]

\* pd.get_dummies(df, columns=columns, drop_first=False): the other columns
\* keep their order, then one indicator per observed level of each encoded
\* column, levels sorted.
GetDummies(df, columns, dt) ==
    LET keep == SelectSeq(df.cols, LAMBDA c : c \notin SeqToSet(columns))
        pair == Flatten([j \in DOMAIN columns |->
                    [l \in DOMAIN Levels(df, columns[j]) |->
                        <<columns[j], Levels(df, columns[j])[l]>>]])
        name == [j \in DOMAIN pair |-> DummyName(pair[j][1], pair[j][2])]
        src(k) == CHOOSE j \in DOMAIN pair : name[j] = k
    IN  [cols  |-> keep \o name,
         dtype |-> [k \in SeqToSet(keep) \cup SeqToSet(name) |->
                      IF k \in SeqToSet(keep) THEN df.dtype[k] ELSE dt],
         rows  |-> [i \in DOMAIN df.rows |->
                      [k \in SeqToSet(keep) \cup SeqToSet(name) |->
                          IF k \in SeqToSet(keep) THEN df.rows[i][k]
                          ELSE IF df.rows[i][pair[src(k)][1]] = pair[src(k)][2]
                               THEN 1 ELSE 0]]]

(***************************************************************************)
(* The column lists the code names.                                        *)
(***************************************************************************)
face_features == <<"FacialSymmetry", "GoldenRatioDeviation", "EyeSpacingRatio",
                   "JawlineWidthRatio", "BrowToEyeDistance", "LipToNoseDistance">>

frame_features == <<"Width_mm", "LensHeight_mm", "LensWidth_mm",
                    "NoseBridgeWidth_mm", "TempleLength_mm">>

categorical_cols == <<"Brand", "Material", "RimStyle", "BridgeType", "Color">>

id_and_target_cols == {"FaceID", "FrameID", "AdjustedBeautyScore"}

display_cols == <<"Brand", "Shape", "Color">>

(***************************************************************************)
(* create_interaction_features.  df[a] * df[b] is the product of the two   *)
(* cells; x * 100 / w.clip(lower=1) is a float division, which the model's *)
(* data keeps exact (every width of the model divides face ratio * 100).   *)
(***************************************************************************)
InteractionNameFrameFirst(face_feat, frame_feat) == frame_feat \o "_x_" \o face_feat

InteractionName(face_feat, frame_feat) == face_feat \o "_x_" \o frame_feat

\* the (face_feat, frame_feat) pairs the nested loops visit, in loop order
InteractionPairs(df) ==
    Flatten([a \in DOMAIN face_features |->
        IF HasCol(df, face_features[a])
        THEN LET present == SelectSeq(frame_features, LAMBDA g : HasCol(df, g))
             IN  [b \in DOMAIN present |-> <<face_features[a], present[b]>>]
        ELSE <<>>])

RECURSIVE AddInteractions(_, _)
AddInteractions(df, pairs) ==
    IF pairs = <<>> THEN df
    ELSE AddInteractions(
            SetCol(df, InteractionName(Head(pairs)[1], Head(pairs)[2]), "float64",
                   [i \in DOMAIN df.rows |->
                       df.rows[i][Head(pairs)[1]] * df.rows[i][Head(pairs)[2]]]),
            Tail(pairs))

Clip(w, lower) == Max(w, lower)

RatioToWidth(df, name, face_feat) ==
    IF HasCol(df, face_feat) /\ HasCol(df, "Width_mm")
    THEN SetCol(df, name, "float64",
                [i \in DOMAIN df.rows |->
                    (df.rows[i][face_feat] * 100) \div Clip(df.rows[i]["Width_mm"], 1)])
    ELSE df

\* src/src/my_recommend.py
create_interaction_features(df) ==
    LET products == AddInteractions(df, InteractionPairs(df))
        eye      == RatioToWidth(products, "EyeToFrameWidth", "EyeSpacingRatio")
    IN  RatioToWidth(eye, "JawToFrameWidth", "JawlineWidthRatio")

\* the two ratio columns added before the products
train_create_interaction_featuresRatiosFirst(df) ==
    LET eye == RatioToWidth(df, "EyeToFrameWidth", "EyeSpacingRatio")
        jaw == RatioToWidth(eye, "JawToFrameWidth", "JawlineWidthRatio")
    IN  AddInteractions(jaw, InteractionPairs(df))

\* src/src/train.py
train_create_interaction_features(df) ==
    LET products == AddInteractions(df, InteractionPairs(df))
        eye      == RatioToWidth(products, "EyeToFrameWidth", "EyeSpacingRatio")
    IN  RatioToWidth(eye, "JawToFrameWidth", "JawlineWidthRatio")

(***************************************************************************)
(* Offline training: what is written to X_columns.json and scaler.joblib.  *)
(***************************************************************************)
\* The face metrics of the model's data (the keys of new_face and the face
\* columns of the training table), in 10^-4.
FaceKeys == <<"EyeSpacingRatio", "JawlineWidthRatio">>

NewFace == [k \in SeqToSet(FaceKeys) |-> IF k = "EyeSpacingRatio" THEN 4200 ELSE 8100]

Widths == {0, 50}

\* df_model of preprocess.main for training pairs whose frames carry the
\* given brands: cols_to_keep puts the face columns first, then the frame
\* columns in the order of frame_features (FrameID, Brand, ..., Width_mm),
\* then the target.
TrainingTable(brands) ==
    LET cols == <<"FaceID">> \o FaceKeys \o <<"FrameID", "Brand", "Width_mm", "AdjustedBeautyScore">>
    IN  [cols  |-> cols,
         dtype |-> [k \in SeqToSet(cols) |->
                      IF k \in {"Brand"} THEN "object"
                      ELSE IF k \in {"FaceID", "FrameID", "Width_mm"} THEN "int64"
                      ELSE "float64"],
         rows  |-> [i \in DOMAIN brands |->
                      [k \in SeqToSet(cols) |->
                          IF k = "Brand" THEN brands[i]
                          ELSE IF k \in {"FaceID", "FrameID"} THEN i
                          ELSE IF k = "Width_mm" THEN 50
                          ELSE IF k = "AdjustedBeautyScore" THEN 7
                          ELSE NewFace[k]]]]

\* preprocess.main, from df_model on: one-hot encode, drop ids and target,
\* fit the scaler on the numeric columns of X, save the columns of X.
preprocess_main(df_model, dt) ==
    LET cats       == SelectSeq(categorical_cols, LAMBDA c : HasCol(df_model, c))
        df_encoded == GetDummies(df_model, cats, dt)
        X          == DropCols(df_encoded, id_and_target_cols)
    IN  [processed |-> df_encoded,
         xcols     |-> X.cols,
         saved     |-> NumericCols(X) # <<>>,
         fitted    |-> NumericCols(X)]

\* pd.read_csv of processed_data.csv: 0/1 text comes back as int64, and
\* True/False text as bool.
ReadCsvDtype(dt) == IF dt = "uint8" THEN "int64" ELSE dt

\* train.main: read the processed table, add the interaction columns, drop
\* ids and target, save the columns of X, fit the scaler on the numeric ones.
train_main(processed) ==
    LET csv == [processed EXCEPT !.dtype =
                   [k \in DOMAIN processed.dtype |-> ReadCsvDtype(processed.dtype[k])]]
        df  == train_create_interaction_features(csv)
        X   == DropCols(df, id_and_target_cols)
    IN  [xcols  |-> X.cols,
         saved  |-> TRUE,
         fitted |-> NumericCols(X)]

\* The artifacts under data/ after the named script ran last.
Artifacts(script, brands, dt) ==
    LET pre == preprocess_main(TrainingTable(brands), dt)
    IN  IF script = "preprocess"
        THEN [xcols |-> pre.xcols, saved |-> pre.saved, fitted |-> pre.fitted]
        ELSE train_main(pre.processed)

(***************************************************************************)
(* The inputs of a request.                                                *)
(***************************************************************************)
FrameIds == <<"A", "B", "C", "D", "E", "F">>

CatalogBrands == {"Acme", "RayBan"}

\* the brands of the training pairs behind the artifacts
TrainingBrands == {<<"RayBan">>, <<"Oakley", "RayBan">>, <<"Acme", "RayBan">>}

\* what the scorer can answer for a row, in 10^-4: 3.0011 and 3.0014, two
\* scores that differ below the three decimals the demo prints
Scores == {30011, 30014}

\* f"{score:.3f}" of demo.py, in 10^-3
Format3f(score) == (score + 5) \div 10

CatalogCols == <<"FrameID", "Brand", "Width_mm">>

\* frame_catalog.csv with the given brand and width per row
Catalog(brand, width) ==
    [cols  |-> CatalogCols,
     dtype |-> [k \in SeqToSet(CatalogCols) |-> IF k = "Width_mm" THEN "int64" ELSE "object"],
     rows  |-> [i \in DOMAIN brand |->
                  [k \in SeqToSet(CatalogCols) |->
                      IF k = "FrameID" THEN FrameIds[i]
                      ELSE IF k = "Brand" THEN brand[i]
                      ELSE width[i]]]]

\* the brands of a catalog of n rows: any brand in the first two rows,
\* RayBan in the rows after them
BrandColumns(n) ==
    {b \in [1..n -> CatalogBrands] : \A i \in 3..n : b[i] = "RayBan"}

\* the catalogs of the model: the first row's width is any of Widths, the
\* other rows are 50 mm wide
Catalogs ==
    UNION {{Catalog(b, [i \in 1..n |-> IF i = 1 THEN w ELSE 50]) :
                b \in BrandColumns(n), w \in Widths} : n \in 1..MaxRows}

UniformCatalogs ==
    {Catalog([i \in 1..n |-> "RayBan"], [i \in 1..n |-> 50]) : n \in 1..MaxRows}

\* a catalog whose FrameID column read_csv parsed as int64: 101, 102
NumericCatalogs ==
    {[cols  |-> CatalogCols,
      dtype |-> [k \in SeqToSet(CatalogCols) |-> IF k = "Brand" THEN "object" ELSE "int64"],
      rows  |-> [i \in 1..n |->
                   [k \in SeqToSet(CatalogCols) |->
                       IF k = "FrameID" THEN 100 + i
                       ELSE IF k = "Brand" THEN "RayBan"
                       ELSE 50]]] : n \in 1..2}

NoScaler == [present |-> FALSE, fitted |-> <<>>]

(***************************************************************************)
(* Ranking: sort_values(by=score, ascending=False).head(top_k).            *)
(***************************************************************************)
\* sort_values is called with its default kind, 'quicksort', which pandas
\* documents as not stable: the result is some ordering of the rows by
\* descending score, and which of two rows of equal score comes first is
\* left to the sorting kernel of the NumPy build.
SortValuesDescendingRounded(scores) ==
    {o \in Perms(Len(scores)) :
        \A i, j \in 1..Len(scores) :
            i < j => Format3f(scores[o[i]]) >= Format3f(scores[o[j]])}

SortValuesAscending(scores) ==
    {o \in Perms(Len(scores)) :
        \A i, j \in 1..Len(scores) : i < j => scores[o[i]] <= scores[o[j]]}

SortValuesDescending(scores) ==
    {o \in Perms(Len(scores)) :
        \A i, j \in 1..Len(scores) : i < j => scores[o[i]] >= scores[o[j]]}

\* .head(k): the first k entries, all of them when there are fewer
HeadOneMore(o, k) == SubSeq(o, 1, Min(k + 1, Len(o)))

HeadOf(o, k) == SubSeq(o, 1, Min(k, Len(o)))

\* as Display, with the score column left in catalog order
DisplayScoresUnsorted(df, o) ==
    LET names == <<"FrameID">> \o SelectSeq(display_cols, LAMBDA c : HasCol(df, c))
                     \o <<"PredictedBeautyScore">>
    IN  [i \in DOMAIN o |->
            [c \in SeqToSet(names) |->
                IF c = "PredictedBeautyScore" THEN df.rows[i][c] ELSE df.rows[o[i]][c]]]

\* top[['FrameID'] + [c for c in ['Brand', 'Shape', 'Color'] if c in top.columns]
\*     + ['PredictedBeautyScore']] for the rows o of df
Display(df, o) ==
    LET names == <<"FrameID">> \o SelectSeq(display_cols, LAMBDA c : HasCol(df, c))
                     \o <<"PredictedBeautyScore">>
    IN  [i \in DOMAIN o |-> [c \in SeqToSet(names) |-> df.rows[o[i]][c]]]

(***************************************************************************)
(* The Schema Builder steps of recommend (recommend.py, my_recommend.py).  *)
(***************************************************************************)
\* the face rows joined to the catalog rows in reverse order
BroadcastReversed(face, catalog) ==
    LET keys == SelectSeq(face_features, LAMBDA k : k \in DOMAIN face)
        n    == Len(catalog.rows)
    IN  [cols  |-> keys \o catalog.cols,
         dtype |-> [k \in SeqToSet(keys) \cup SeqToSet(catalog.cols) |->
                      IF k \in SeqToSet(keys) THEN "float64" ELSE catalog.dtype[k]],
         rows  |-> [i \in DOMAIN catalog.rows |->
                      [k \in SeqToSet(keys) \cup SeqToSet(catalog.cols) |->
                          IF k \in SeqToSet(keys) THEN face[k] ELSE catalog.rows[n + 1 - i][k]]]]

\* face_df = pd.DataFrame([new_face] * len(frame_catalog));
\* combined = pd.concat([face_df, frame_catalog], axis=1)
Broadcast(face, catalog) ==
    LET keys == SelectSeq(face_features, LAMBDA k : k \in DOMAIN face)
    IN  [cols  |-> keys \o catalog.cols,
         dtype |-> [k \in SeqToSet(keys) \cup SeqToSet(catalog.cols) |->
                      IF k \in SeqToSet(keys) THEN "float64" ELSE catalog.dtype[k]],
         rows  |-> [i \in DOMAIN catalog.rows |->
                      [k \in SeqToSet(keys) \cup SeqToSet(catalog.cols) |->
                          IF k \in SeqToSet(keys) THEN face[k] ELSE catalog.rows[i][k]]]]

\* pd.get_dummies(combined, columns=[c for c in [...] if c in combined.columns])
Encode(df, dt) ==
    GetDummies(df, SelectSeq(categorical_cols, LAMBDA c : HasCol(df, c)), dt)

\* as AddMissing, without the test "col not in columns"
RECURSIVE AddMissingOverwrite(_, _)
AddMissingOverwrite(df, schema) ==
    IF schema = <<>> THEN df
    ELSE AddMissingOverwrite(SetCol(df, Head(schema), "int64", [i \in DOMAIN df.rows |-> 0]), Tail(schema))

\* for col in xcols: if col not in combined_encoded.columns: combined_encoded[col] = 0
RECURSIVE AddMissing(_, _)
AddMissing(df, schema) ==
    IF schema = <<>> THEN df
    ELSE AddMissing(IF HasCol(df, Head(schema)) THEN df
                    ELSE SetCol(df, Head(schema), "int64", [i \in DOMAIN df.rows |-> 0]),
                    Tail(schema))

\* as AlignToSchema, without the selection combined_encoded[xcols]
AlignWithoutSelection(df, schema) == AddMissing(df, schema)

\* ... ; combined_encoded = combined_encoded[xcols]
AlignToSchema(df, schema) == SelectCols(AddMissing(df, schema), schema)

\* numeric_cols = combined_encoded.select_dtypes(include=['number']).columns
ScalerInput(df) == NumericCols(df)

\* scaler.transform(df[cols]) checks the columns against the ones it was
\* fitted on and raises ValueError when they differ.
ScalerAccepts(sc, cols) == cols = sc.fitted

\* combined_encoded[numeric_cols] = scaler.transform(...): the cells of the
\* named columns are replaced by their standardised values.
Standardise(df, cols) ==
    [cols  |-> df.cols,
     dtype |-> [k \in SeqToSet(df.cols) |-> IF k \in SeqToSet(cols) THEN "float64" ELSE df.dtype[k]],
     rows  |-> [i \in DOMAIN df.rows |->
                  [k \in SeqToSet(df.cols) |->
                      IF k \in SeqToSet(cols) THEN <<"scaled", df.rows[i][k]>>
                      ELSE df.rows[i][k]]]]

(***************************************************************************)
(* score_frames of gemini_recommend.py, from the parsed scores_list on.    *)
(***************************************************************************)
\* score_map = {str(item["FrameID"]): int(item["score"]) for item in scores_list}
\* a later entry of the same FrameID replaces an earlier one
\* A FrameID of the answer is a JSON value: [json |-> "string" or "number",
\* text |-> what str() gives for the parsed value], e.g. "101" for the
\* string "101" and for the number 101, "101.0" for the number 101.0.
PyStr(value) == value.text

DigitText(d) ==
    CASE d = 0 -> "0" [] d = 1 -> "1" [] d = 2 -> "2" [] d = 3 -> "3" [] d = 4 -> "4"
      [] d = 5 -> "5" [] d = 6 -> "6" [] d = 7 -> "7" [] d = 8 -> "8" [] d = 9 -> "9"

\* str(n) of a non-negative int
RECURSIVE DecimalText(_)
DecimalText(n) ==
    IF n < 10 THEN DigitText(n) ELSE DecimalText(n \div 10) \o DigitText(n % 10)

\* frames_df["FrameID"].astype(str), row i: an int64 cell becomes its
\* decimal text, a str cell stays
AsTypeStr(frames_df, i) ==
    IF frames_df.dtype["FrameID"] = "int64"
    THEN DecimalText(frames_df.rows[i]["FrameID"])
    ELSE frames_df.rows[i]["FrameID"]

ScoreMapHas(scores_list, id) ==
    \E j \in DOMAIN scores_list : PyStr(scores_list[j].FrameID) = id

\* as ScoreMapGet, the first entry of a FrameID kept
ScoreMapGetFirst(scores_list, id) ==
    LET first == CHOOSE j \in DOMAIN scores_list :
                    /\ PyStr(scores_list[j].FrameID) = id
                    /\ \A l \in DOMAIN scores_list :
                          PyStr(scores_list[l].FrameID) = id => j <= l
    IN  scores_list[first].score

ScoreMapGet(scores_list, id) ==
    LET last == CHOOSE j \in DOMAIN scores_list :
                    /\ PyStr(scores_list[j].FrameID) = id
                    /\ \A l \in DOMAIN scores_list :
                          PyStr(scores_list[l].FrameID) = id => l <= j
    IN  scores_list[last].score

\* int(x) of a JSON number given in tenths: the fraction is cut off
PyInt(tenths) == IF tenths >= 0 THEN tenths \div 10 ELSE -((-tenths) \div 10)

\* as score_frames, pairing the answer with the rows by position
score_framesByPosition(frames_df, scores_list) ==
    [i \in DOMAIN frames_df.rows |->
        IF i \in DOMAIN scores_list THEN PyInt(scores_list[i].score) ELSE 0]

\* frames_df["FrameID"].astype(str).map(score_map).fillna(0).astype(int),
\* with score_map[id] = int(item["score"])
score_frames(frames_df, scores_list) ==
    [i \in DOMAIN frames_df.rows |->
        IF ScoreMapHas(scores_list, AsTypeStr(frames_df, i))
        THEN PyInt(ScoreMapGet(scores_list, AsTypeStr(frames_df, i)))
        ELSE 0]

\* the "score" values of the model's answers, in tenths: 30.5 and 150
RawScores == {305, 1500}

\* the answers the remote model can give for a catalog
\* the FrameID values an answer can hold: for a catalog of str ids each id
\* as a string and the unknown "ZZ"; for a catalog of int ids each id as a
\* number and as a string, and the first id as the number <id>.0
JsonIds(frames_df) ==
    IF frames_df.dtype["FrameID"] = "int64"
    THEN {[json |-> j, text |-> AsTypeStr(frames_df, i)] :
             j \in {"number", "string"}, i \in DOMAIN frames_df.rows}
         \cup {[json |-> "number", text |-> AsTypeStr(frames_df, 1) \o ".0"]}
    ELSE {[json |-> "string", text |-> AsTypeStr(frames_df, i)] : i \in DOMAIN frames_df.rows}
         \cup {[json |-> "string", text |-> "ZZ"]}

ResponseItems(frames_df) ==
    [FrameID : JsonIds(frames_df), score : RawScores]

Responses(frames_df) == UNION {[1..n -> ResponseItems(frames_df)] : n \in 0..MaxResp}

(***************************************************************************)
(* Parsing response.text (score_frames, lines 129-136).  The text, after   *)
(* strip(), is a sequence of tokens: "FENCE" is ```, "json" the letters    *)
(* json, "DATA" the JSON array, "PROSE" any other text; white space is     *)
(* left out (strip and json.loads skip it).                                *)
(***************************************************************************)
StartsWith(raw, tok) == raw # <<>> /\ Head(raw) = tok

\* the tokens before the first fence of raw
RECURSIVE UpToFence(_)
UpToFence(raw) ==
    IF raw = <<>> \/ Head(raw) = "FENCE" THEN <<>>
    ELSE <<Head(raw)>> \o UpToFence(Tail(raw))

\* if raw.startswith("```"): raw = raw.split("```")[1];
\*     if raw.startswith("json"): raw = raw[4:]
StripFences(raw) ==
    IF StartsWith(raw, "FENCE")
    THEN LET inner == UpToFence(Tail(raw))
         IN  IF StartsWith(inner, "json") THEN Tail(inner) ELSE inner
    ELSE raw

\* json.loads(raw) succeeds on a JSON value and nothing else
JsonLoads(raw) == raw = <<"DATA">>

\* the shapes of answer of the model
ResponseTexts ==
    {<<"DATA">>,
     <<"FENCE", "DATA", "FENCE">>,
     <<"FENCE", "json", "DATA", "FENCE">>,
     <<"FENCE", "json", "DATA">>,
     <<"FENCE", "json", "DATA", "FENCE", "PROSE">>,
     <<"PROSE", "FENCE", "json", "DATA", "FENCE">>,
     <<"PROSE", "DATA">>,
     <<"DATA", "PROSE">>,
     <<"json", "DATA">>,
     <<"FENCE", "PROSE", "DATA", "FENCE">>,
     <<"PROSE">>}

(***************************************************************************)
(* The files a request reads.                                              *)
(***************************************************************************)
SchemaFile == "data/X_columns.json"

ScalerFile == "data/scaler.joblib"

CatalogFile == "data/frame_catalog.csv"

ModelFile == "models/regressor.joblib"

FaceImageFile == "face image"

ApiKey == "GEMINI_API_KEY"

\* what may be absent when recommend.py / my_recommend.py run (the scaler
\* file apart, whose absence is scaler.present = FALSE)
LocalFiles == {SchemaFile, CatalogFile, ModelFile}

\* what may be absent when gemini_recommend.py runs
RemoteFiles == {CatalogFile, FaceImageFile, ApiKey}

\* as LocalChecks, without the test "if frame_catalog is None"
LocalChecksWithoutCatalog == <<SchemaFile, ModelFile>>

\* the order in which recommend.py / my_recommend.py come to fail on a file
\* that does not exist: read_text of the schema, model_path.exists(),
\* frame_catalog is None
LocalChecks == <<SchemaFile, ModelFile, CatalogFile>>

\* the order of the sys.exit tests of gemini_recommend.py
RemoteChecks == <<CatalogFile, FaceImageFile, ApiKey>>

\* the first of checks that is absent, "" when none is
FirstMissing(checks, absent) ==
    IF \E j \in DOMAIN checks : checks[j] \in absent
    THEN checks[CHOOSE j \in DOMAIN checks :
                    /\ checks[j] \in absent
                    /\ \A l \in 1..(j - 1) : checks[l] \notin absent]
    ELSE ""

(***************************************************************************)
(* Initial states: the artifacts on disk and the arguments of the request. *)
(***************************************************************************)
FaceIdle == points = <<>> /\ features = <<>>

NoOutputs == [kind |-> "unset", analysis |-> FALSE, ranking |-> <<>>, error |-> ""]

DemoIdle ==
    /\ image = "unset" /\ temp_upload = "absent" /\ extracted = "unset"
    /\ recommend_calls = 0 /\ outputs = NoOutputs

InterIdle ==
    /\ df_in = NoTable /\ df_out = NoTable /\ df_train_out = NoTable
    /\ df_dummies = NoTable

ScrapeIdle ==
    /\ caller = "none" /\ retries = 0 /\ attempt = 0 /\ outcomes = <<>> /\ waits = <<>>
    /\ gp_result = "unset" /\ page_num = 0 /\ products_found = 0
    /\ has_next_page = FALSE /\ glasses_urls = {} /\ pause = 0

PairIdle == sessions = <<>>

AuxIdle == InterIdle /\ ScrapeIdle /\ PairIdle

RequestIdle ==
    /\ combined = NoTable /\ built = NoTable /\ combined_encoded = NoTable
    /\ numeric_cols = <<>> /\ response_text = <<>> /\ response = <<>> /\ preds = <<>> /\ order = <<>>
    /\ top = <<>> /\ err = "none" /\ msg = ""

\* no recommend call at all
NoRequest ==
    /\ variant = "none" /\ missing = {} /\ dummy_dtype = "bool" /\ trainer = "none"
    /\ xcols = <<>> /\ scaler = NoScaler /\ frame_catalog = NoTable
    /\ new_face = <<>> /\ top_k = 1
    /\ RequestIdle

\* A file that does not exist has no content: the schema is then the empty
\* list and the catalog is None (the empty table here); a scaler file that
\* does not exist is scaler = None (NoScaler).
InitLocal ==
    /\ pc = "called"
    /\ variant \in {"my_recommend", "recommend"}
    /\ missing \in SUBSET LocalFiles
    /\ dummy_dtype \in {"bool", "uint8"}
    /\ trainer \in {"preprocess", "train"}
    /\ \E brands \in TrainingBrands, present \in BOOLEAN :
          LET art == Artifacts(trainer, brands, dummy_dtype)
          IN  /\ xcols = IF SchemaFile \in missing THEN <<>> ELSE art.xcols
              /\ scaler = IF present /\ art.saved
                          THEN [present |-> TRUE, fitted |-> art.fitted]
                          ELSE NoScaler
    /\ IF CatalogFile \in missing THEN frame_catalog = NoTable
       ELSE frame_catalog \in Catalogs
    /\ new_face = NewFace
    /\ top_k \in 1..MaxK
    /\ RequestIdle
    /\ FaceIdle
    /\ DemoIdle
    /\ AuxIdle

InitRemote ==
    /\ pc = "called"
    /\ variant = "gemini"
    /\ missing \in SUBSET RemoteFiles
    /\ dummy_dtype = "bool"
    /\ trainer = "none"
    /\ xcols = <<>>
    /\ scaler = NoScaler
    /\ IF CatalogFile \in missing THEN frame_catalog = NoTable
       ELSE frame_catalog \in UniformCatalogs \cup NumericCatalogs
    /\ new_face = NewFace
    /\ top_k \in 1..MaxK
    /\ RequestIdle
    /\ FaceIdle
    /\ DemoIdle
    /\ AuxIdle

Init == InitLocal \/ InitRemote

(***************************************************************************)
(* recommend of recommend.py and my_recommend.py, step by step.            *)
(***************************************************************************)
\* xcols, scaler, frame_catalog = load_artifacts(root), the model file test
\* and the "frame_catalog is None" test.  read_text raises FileNotFoundError
\* (whose text carries the path) for a schema file that does not exist; the
\* catalog message reads "frame_catalog.csv not found in data/".
LoadArtifacts ==
    /\ pc = "called"
    /\ variant \in {"my_recommend", "recommend"}
    /\ IF FirstMissing(LocalChecks, missing) # ""
       THEN /\ pc' = "raised"
            /\ err' = "FileNotFoundError"
            /\ msg' = FirstMissing(LocalChecks, missing)
       ELSE pc' = "start" /\ UNCHANGED <<err, msg>>
    /\ UNCHANGED <<variant, missing, dummy_dtype, trainer, xcols, scaler, frame_catalog,
                   new_face, top_k, combined, built, combined_encoded, numeric_cols,
                   response_text, response, preds, order, top>>
    /\ UNCHANGED <<faceVars, demoVars, auxVars>>

\* broadcast, interaction terms (my_recommend.py only), categorical encoding
Build ==
    /\ pc = "start"
    /\ variant \in {"my_recommend", "recommend"}
    /\ LET joined == Broadcast(new_face, frame_catalog)
           df     == IF variant = "my_recommend" THEN create_interaction_features(joined)
                     ELSE joined
       IN  /\ combined' = df
           /\ built' = Encode(df, dummy_dtype)
    /\ pc' = "built"
    /\ UNCHANGED <<variant, missing, msg, dummy_dtype, trainer, xcols, scaler, frame_catalog, new_face,
                   top_k, combined_encoded, numeric_cols, response_text, response, preds, order, top, err>>
    /\ UNCHANGED <<faceVars, demoVars, auxVars>>

\* schema alignment
Align ==
    /\ pc = "built"
    /\ combined_encoded' = AlignToSchema(built, xcols)
    /\ pc' = "aligned"
    /\ UNCHANGED <<variant, missing, msg, dummy_dtype, trainer, xcols, scaler, frame_catalog, new_face,
                   top_k, combined, built, numeric_cols, response_text, response, preds, order, top, err>>
    /\ UNCHANGED <<faceVars, demoVars, auxVars>>

\* numeric scaling: "if scaler:" and the two lines under it
Scale ==
    /\ pc = "aligned"
    /\ IF scaler.present
       THEN /\ numeric_cols' = ScalerInput(combined_encoded)
            /\ IF ScalerAccepts(scaler, ScalerInput(combined_encoded))
               THEN /\ combined_encoded' = Standardise(combined_encoded, ScalerInput(combined_encoded))
                    /\ pc' = "scaled"
                    /\ err' = err
               ELSE /\ combined_encoded' = combined_encoded
                    /\ pc' = "raised"
                    /\ err' = "ValueError"
       ELSE /\ pc' = "scaled"
            /\ UNCHANGED <<numeric_cols, combined_encoded, err>>
    /\ UNCHANGED <<variant, missing, msg, dummy_dtype, trainer, xcols, scaler, frame_catalog, new_face,
                   top_k, combined, built, response_text, response, preds, order, top>>
    /\ UNCHANGED <<faceVars, demoVars, auxVars>>

\* preds = model.predict(combined_encoded); combined['PredictedBeautyScore'] = preds
Predict ==
    /\ pc = "scaled"
    /\ \E p \in [DOMAIN combined_encoded.rows -> Scores] :
          /\ preds' = p
          /\ combined' = SetCol(combined, "PredictedBeautyScore", "float64", p)
    /\ pc' = "predicted"
    /\ UNCHANGED <<variant, missing, msg, dummy_dtype, trainer, xcols, scaler, frame_catalog, new_face,
                   top_k, built, combined_encoded, numeric_cols, response_text, response, order, top, err>>
    /\ UNCHANGED <<faceVars, demoVars, auxVars>>

\* top = combined.sort_values(...).head(top_k); return top[[...]]
Rank ==
    /\ pc = "predicted"
    /\ \E o \in SortValuesDescending(preds) :
          /\ order' = o
          /\ top' = Display(combined, HeadOf(o, top_k))
    /\ pc' = "done"
    /\ UNCHANGED <<variant, missing, msg, dummy_dtype, trainer, xcols, scaler, frame_catalog, new_face,
                   top_k, combined, built, combined_encoded, numeric_cols, response_text, response, preds, err>>
    /\ UNCHANGED <<faceVars, demoVars, auxVars>>

(***************************************************************************)
(* recommend of gemini_recommend.py.                                       *)
(***************************************************************************)
\* steps 1 and 2 of recommend and _build_client: each ends the process with
\* sys.exit(message) when the catalog, the face image or the API key is not
\* there.
RemoteLoad ==
    /\ pc = "called"
    /\ variant = "gemini"
    /\ IF FirstMissing(RemoteChecks, missing) # ""
       THEN /\ pc' = "raised"
            /\ err' = "SystemExit"
            /\ msg' = FirstMissing(RemoteChecks, missing)
       ELSE pc' = "start" /\ UNCHANGED <<err, msg>>
    /\ UNCHANGED <<variant, missing, dummy_dtype, trainer, xcols, scaler, frame_catalog,
                   new_face, top_k, combined, built, combined_encoded, numeric_cols,
                   response_text, response, preds, order, top>>
    /\ UNCHANGED <<faceVars, demoVars, auxVars>>

\* scores = score_frames(...); frames_df["PredictedBeautyScore"] = scores.
\* r is the array the DATA token of the answer stands for.
RemoteScore ==
    /\ pc = "start"
    /\ variant = "gemini"
    /\ \E text \in ResponseTexts, r \in Responses(frame_catalog) :
          /\ response_text' = text
          /\ IF JsonLoads(StripFences(text))
             THEN /\ response' = r
                  /\ preds' = score_frames(frame_catalog, r)
                  /\ frame_catalog' = SetCol(frame_catalog, "PredictedBeautyScore", "int64",
                                             score_frames(frame_catalog, r))
                  /\ pc' = "remote_scored"
                  /\ err' = err
             ELSE /\ pc' = "raised"
                  /\ err' = "JSONDecodeError"
                  /\ UNCHANGED <<response, preds, frame_catalog>>
    /\ UNCHANGED <<variant, missing, msg, dummy_dtype, trainer, xcols, scaler, new_face, top_k,
                   combined, built, combined_encoded, numeric_cols, order, top>>
    /\ UNCHANGED <<faceVars, demoVars, auxVars>>

\* top = frames_df.sort_values(...).head(top_k).reset_index(drop=True); return top[display_cols]
RemoteRank ==
    /\ pc = "remote_scored"
    /\ \E o \in SortValuesDescending(preds) :
          /\ order' = o
          /\ top' = Display(frame_catalog, HeadOf(o, top_k))
    /\ pc' = "done"
    /\ UNCHANGED <<variant, missing, msg, dummy_dtype, trainer, xcols, scaler, frame_catalog, new_face,
                   top_k, combined, built, combined_encoded, numeric_cols, response_text, response, preds, err>>
    /\ UNCHANGED <<faceVars, demoVars, auxVars>>

Next == LoadArtifacts \/ RemoteLoad \/ Build \/ Align \/ Scale \/ Predict \/ Rank \/ RemoteScore \/ RemoteRank

Spec == Init /\ [][Next]_vars

(***************************************************************************)
(* Properties of recommend.                                                *)
(***************************************************************************)
Local == variant \in {"my_recommend", "recommend"}

RowCount == Len(frame_catalog.rows)

\* the indicator columns of the schema for a nominal attribute
IndicatorCols(attr) ==
    SelectSeq(xcols, LAMBDA c : \E v \in SeqToSet(LevelOrder) : c = DummyName(attr, v))

\* C1: after schema alignment the matrix handed to the scorer has exactly
\* the columns of the schema, in the order of the schema (no column missing,
\* none extra), in the column list, the dtypes and every row.
C1_AlignedColumnsEqualSchema ==
    (Local /\ pc \in {"aligned", "scaled", "predicted", "done"}) =>
        /\ combined_encoded.cols = xcols
        /\ DOMAIN combined_encoded.dtype = SeqToSet(xcols)
        /\ Len(combined_encoded.rows) = RowCount
        /\ \A i \in DOMAIN combined_encoded.rows :
              DOMAIN combined_encoded.rows[i] = SeqToSet(xcols)

\* a scored request whose built matrix lacked a schema column, carried a
\* column the schema does not name, and had the shared columns in another
\* order than the schema
C1_Witness ==
    /\ Local /\ pc = "predicted"
    /\ \E c \in SeqToSet(xcols) : ~HasCol(built, c)
    /\ \E c \in SeqToSet(built.cols) : c \notin SeqToSet(xcols)
    /\ SelectSeq(built.cols, LAMBDA c : c \in SeqToSet(xcols))
         # SelectSeq(xcols, LAMBDA c : HasCol(built, c))

\* C2 (as claimed): ranking is stable under ties: two returned records of
\* equal score appear in the order they have in the catalog, in the local
\* and in the remote recommend.
C2_StableUnderTies ==
    pc = "done" =>
        \A i, j \in 1..Len(top) :
            (i < j /\ preds[order[i]] = preds[order[j]]) => order[i] < order[j]

\* C3: recommend returns exactly min(top_k, N) records for a catalog of N
\* rows.
C3_TopKLength ==
    pc = "done" => Len(top) = Min(top_k, RowCount)

\* a request that returned top_k records out of a larger catalog
C3_Witness ==
    pc = "done" /\ top_k < RowCount /\ Len(top) = top_k

\* a request that returned the whole catalog because it has fewer than
\* top_k rows
C3_WitnessShortCatalog ==
    pc = "done" /\ RowCount < top_k /\ Len(top) = RowCount

\* the catalog rows whose FrameID is not in the returned records
LeftOut ==
    {r \in 1..RowCount :
        \A i \in 1..Len(top) : top[i]["FrameID"] # frame_catalog.rows[r]["FrameID"]}

\* C4: the returned records are in non-increasing score order, and no
\* record left out scores strictly higher than a returned one.
C4_SortedTopOfCatalog ==
    pc = "done" =>
        /\ \A i, j \in 1..Len(top) :
              i < j => top[i]["PredictedBeautyScore"] >= top[j]["PredictedBeautyScore"]
        /\ \A r \in LeftOut : \A i \in 1..Len(top) :
              preds[r] <= top[i]["PredictedBeautyScore"]

\* a returned ranking that leaves a record out, of a catalog whose scores
\* were not already in descending order
C4_Witness ==
    /\ pc = "done" /\ LeftOut # {}
    /\ \E r \in 1..(RowCount - 1) : preds[r] < preds[r + 1]

\* C8: in the aligned matrix (before scaling) a schema column the built
\* matrix lacks is 0 in every row, a schema column the built matrix has
\* keeps the built value of every row, and no built column outside the
\* schema is left.
C8_AlignmentFillsDropsKeeps ==
    (Local /\ pc = "aligned") =>
        /\ \A c \in SeqToSet(xcols) : \A i \in 1..RowCount :
              combined_encoded.rows[i][c] = IF HasCol(built, c) THEN built.rows[i][c] ELSE 0
        /\ \A c \in SeqToSet(built.cols) :
              c \notin SeqToSet(xcols) => ~HasCol(combined_encoded, c)

\* an alignment that had a column to fill, a column to drop and a non-zero
\* value to keep
C8_Witness ==
    /\ Local /\ pc = "aligned"
    /\ \E c \in SeqToSet(xcols) : ~HasCol(built, c)
    /\ \E c \in SeqToSet(built.cols) : c \notin SeqToSet(xcols)
    /\ \E c \in SeqToSet(xcols) : HasCol(built, c) /\ built.rows[1][c] # 0

\* the catalog rows whose Brand has no indicator column in the schema
UnseenBrandRows ==
    {i \in 1..RowCount :
        DummyName("Brand", frame_catalog.rows[i]["Brand"]) \notin SeqToSet(xcols)}

\* C9 (as claimed): a record whose Brand was never seen in training does not
\* make recommend raise, and its row of the aligned matrix is 0 in every
\* Brand indicator column.
C9_UnseenCategoryZeroNoRaise ==
    (Local /\ UnseenBrandRows # {}) =>
        /\ pc # "raised"
        /\ pc \in {"aligned", "raised"} =>
              \A i \in UnseenBrandRows : \A c \in SeqToSet(IndicatorCols("Brand")) :
                  combined_encoded.rows[i][c] = 0

\* C10 (as claimed): a supplied scaler is handed exactly the columns it was
\* fitted on.
C10_ScalerGetsFittedColumns ==
    (Local /\ scaler.present /\ pc \in {"scaled", "raised", "predicted", "done"}) =>
        numeric_cols = scaler.fitted

\* the column names create_interaction_features can give a table
InteractionNames ==
    {InteractionName(f, g) : f \in SeqToSet(face_features), g \in SeqToSet(frame_features)}
        \cup {"EyeToFrameWidth", "JawToFrameWidth"}

SchemaNamesInteractions == \E c \in SeqToSet(xcols) : c \in InteractionNames

BuiltInteractions == \E c \in SeqToSet(built.cols) : c \in InteractionNames

\* C11 (as claimed): the builder builds the interaction terms exactly when
\* the loaded schema names interaction / derived-ratio columns.
C11_InteractionsFollowSchema ==
    (Local /\ pc \in {"built", "aligned", "scaled", "raised", "predicted", "done"}) =>
        (SchemaNamesInteractions <=> BuiltInteractions)

\* the artifacts of a request that do not exist: schema, scaler, catalog and
\* scorer file of the local recommend, the catalog of the remote one
ArtifactsAbsent ==
    IF Local THEN (missing \cap LocalFiles) \cup (IF scaler.present THEN {} ELSE {ScalerFile})
    ELSE missing \cap {CatalogFile}

\* C13 (as claimed): whenever the schema, scaler, catalog or scorer file is
\* absent, recommend ends in an error that reports a missing path, and
\* returns no ranking.
C13_MissingArtifactIsFatal ==
    (pc # "called" /\ ArtifactsAbsent # {}) =>
        (pc = "raised" /\ err # "none" /\ msg \in ArtifactsAbsent /\ top = <<>>)

\* C13 (amended): whenever the schema, catalog or scorer file is absent,
\* recommend ends in an error that names a missing file and returns no
\* ranking; an absent scaler file alone is no error at load: the request
\* goes on (without scaling).
C13_MissingRequiredArtifactIsFatal ==
    /\ (pc # "called" /\ ArtifactsAbsent \ {ScalerFile} # {}) =>
            /\ pc = "raised" /\ top = <<>>
            /\ err \in {"FileNotFoundError", "SystemExit"}
            /\ msg \in ArtifactsAbsent \ {ScalerFile}
    /\ (Local /\ missing = {} /\ ~scaler.present) => pc # "raised"

\* a request that ended on the absent model file while the catalog is
\* absent as well
C13_Witness ==
    /\ Local /\ pc = "raised" /\ err = "FileNotFoundError"
    /\ msg = ModelFile /\ CatalogFile \in missing /\ ~scaler.present

Remote == variant = "gemini"

\* the entries of the parsed answer that carry the FrameID id
\* the text of a FrameID cell of the catalog
FrameKey(cell) ==
    IF frame_catalog.dtype["FrameID"] = "int64" THEN DecimalText(cell) ELSE cell

\* the entries of the answer whose FrameID, as text, is that of the cell
EntriesOf(cell) == {j \in DOMAIN response : response[j].FrameID.text = FrameKey(cell)}

\* the returned record i carries a score the scorer produced for that very
\* frame: the prediction of its catalog row / an entry of the answer with
\* its FrameID
ScoredByScorer(i) ==
    IF Local
    THEN \E r \in 1..RowCount :
            /\ frame_catalog.rows[r]["FrameID"] = top[i]["FrameID"]
            /\ preds[r] = top[i]["PredictedBeautyScore"]
    ELSE \E j \in EntriesOf(top[i]["FrameID"]) :
            top[i]["PredictedBeautyScore"] = PyInt(response[j].score)

\* C14 (as claimed): every record of a returned ranking carries a score the
\* scorer produced for it, in the local and in the remote recommend, and a
\* request that ended in an error returned no ranking.
C14_NoPlaceholderScore ==
    /\ pc = "done" => \A i \in 1..Len(top) : ScoredByScorer(i)
    /\ pc = "raised" => top = <<>>

\* C14 (amended): every record of a returned ranking carries the score the
\* scorer produced for it, except that the remote recommend gives a frame
\* the answer does not mention the score 0; a request that ended in an
\* error returned no ranking.
C14_NoPlaceholderButRemoteDefault ==
    /\ pc = "done" =>
          \A i \in 1..Len(top) :
              IF Remote /\ EntriesOf(top[i]["FrameID"]) = {}
              THEN top[i]["PredictedBeautyScore"] = 0
              ELSE ScoredByScorer(i)
    /\ pc = "raised" => top = <<>>

\* a returned local ranking of frames with different scores, reordered by
\* the sort
C14_Witness ==
    /\ Local /\ pc = "done" /\ Len(top) = 2
    /\ top[1]["PredictedBeautyScore"] > top[2]["PredictedBeautyScore"]
    /\ order[1] > order[2]

\* a returned remote ranking with a frame the answer mentions and a frame
\* it does not
C14_WitnessRemote ==
    /\ Remote /\ pc = "done"
    /\ \E i, j \in 1..Len(top) :
          EntriesOf(top[i]["FrameID"]) = {} /\ EntriesOf(top[j]["FrameID"]) # {}

\* C15: in the remote recommend, whatever array the answer parses to, a
\* catalog frame the array does not mention is scored 0, a frame it mentions
\* is scored int(score) of an entry with its FrameID (of its only entry when
\* there is one), and the request does not fail.
C15_MissingFrameScoresZero ==
    (Remote /\ pc \in {"remote_scored", "done"}) =>
        /\ err = "none"
        /\ Len(preds) = RowCount
        /\ \A r \in 1..RowCount :
              IF EntriesOf(frame_catalog.rows[r]["FrameID"]) = {} THEN preds[r] = 0
              ELSE \E j \in EntriesOf(frame_catalog.rows[r]["FrameID"]) :
                      preds[r] = PyInt(response[j].score)
        /\ pc = "done" => Len(top) >= 1

\* a returned ranking for an answer that mentions the second frame of the
\* catalog only (and a frame the catalog does not have)
C15_Witness ==
    /\ Remote /\ pc = "done" /\ RowCount >= 2
    /\ frame_catalog.dtype["FrameID"] = "object"
    /\ EntriesOf("A") = {} /\ EntriesOf("B") # {} /\ EntriesOf("ZZ") # {}
    /\ preds[1] = 0 /\ preds[2] > 0

\* C16 (as claimed): an answer holding narrative text outside the data is
\* rejected with an error, and an array wrapped in a code fence (with or
\* without the json tag) is parsed and scored like the bare array.
C16_StrictParse ==
    (Remote /\ response_text # <<>>) =>
        /\ "PROSE" \in SeqToSet(response_text) => (pc = "raised" /\ err = "JSONDecodeError")
        /\ response_text \in {<<"DATA">>, <<"FENCE", "DATA", "FENCE">>,
                               <<"FENCE", "json", "DATA", "FENCE">>} =>
              (pc # "raised" /\ preds = score_frames(
                    SelectCols(frame_catalog, CatalogCols), response))

\* C17 (as claimed): score_frames returns one score per catalog row, and
\* every score is an integer from 0 to 100.
C17_ScorePerRowInRange ==
    (Remote /\ pc \in {"remote_scored", "done"}) =>
        /\ DOMAIN preds = 1..RowCount
        /\ \A r \in 1..RowCount : preds[r] \in 0..100

\* C19 (as claimed): no step of a recommend request changes the loaded
\* catalog table (rows, columns, values) or the loaded schema column list.
C19_CatalogAndSchemaNeverMutated ==
    [][frame_catalog' = frame_catalog /\ xcols' = xcols]_vars

IsIndicatorName(c) ==
    \E a \in SeqToSet(categorical_cols), v \in SeqToSet(LevelOrder) : c = DummyName(a, v)

\* the schema columns that are no indicator and that the builder did not
\* produce
UnsynthesizedCols ==
    {c \in SeqToSet(xcols) : ~IsIndicatorName(c) /\ ~HasCol(built, c)}

\* C12 (as claimed): when the schema requires a non-categorical column the
\* builder did not synthesize, recommend ends in an error: the column is
\* never zero-filled and no ranking is returned.
C12_UnsynthesizedColumnIsFatal ==
    (Local /\ pc \in {"aligned", "scaled", "predicted", "done"}) => UnsynthesizedCols = {}

(***************************************************************************)
(* FaceAnalyzer._calculate_metrics.                                        *)
(*                                                                         *)
(* points is a NumPy array, so every quantity is a float64: dividing by    *)
(* zero raises nothing and gives nan (0/0) or inf (x/0, x > 0).  A float   *)
(* is modelled as [kind, n, d]: the exact fraction n/d (d > 0) when kind   *)
(* is "num", else nan or inf (all infinities here are positive, every      *)
(* numerator being an absolute value).  Lengths are carried in quarter     *)
(* pixels (an eye centre is the mean of four points); the landmark sets of *)
(* the model are those whose spans are whole numbers of quarter pixels, on *)
(* which the float arithmetic of the code is exact.                        *)
(***************************************************************************)
RECURSIVE GCD(_, _)
GCD(a, b) == IF b = 0 THEN a ELSE GCD(b, a % b)

Num(n, d) == LET g == GCD(Abs(n), d) IN [kind |-> "num", n |-> n \div g, d |-> d \div g]

NaN == [kind |-> "nan", n |-> 0, d |-> 1]

Inf == [kind |-> "inf", n |-> 0, d |-> 1]

Zero == Num(0, 1)

\* a / b for non-negative a
FDiv(a, b) ==
    IF a.kind = "nan" \/ b.kind = "nan" THEN NaN
    ELSE IF a.kind = "inf" THEN (IF b.kind = "inf" THEN NaN ELSE Inf)
    ELSE IF b.kind = "inf" THEN Zero
    ELSE IF b.n = 0 THEN (IF a.n = 0 THEN NaN ELSE Inf)
    ELSE Num(a.n * b.d, a.d * b.n)

\* a + b for non-negative a, b
FAdd(a, b) ==
    IF a.kind = "nan" \/ b.kind = "nan" THEN NaN
    ELSE IF a.kind = "inf" \/ b.kind = "inf" THEN Inf
    ELSE Num(a.n * b.d + b.n * a.d, a.d * b.d)

\* abs(a - b) for finite b
FAbsDiff(a, b) ==
    IF a.kind = "num" THEN Num(Abs(a.n * b.d - b.n * a.d), a.d * b.d) ELSE a

\* a > 0
FPositive(a) == a.kind = "inf" \/ (a.kind = "num" /\ a.n > 0)

\* floor(n * 10^digits / d) for 0 <= n < d, by long division
RECURSIVE Digits(_, _, _)
Digits(n, d, digits) ==
    IF digits = 0 THEN [q |-> 0, r |-> n]
    ELSE LET first == (n * 10) \div d
             rest  == Digits((n * 10) % d, d, digits - 1)
         IN  [q |-> first * Exp10(digits - 1) + rest.q, r |-> rest.r]

\* as Round4, cutting the digits after the fourth instead of rounding
Round4Truncate(a) ==
    IF a.kind # "num" THEN [kind |-> a.kind, val |-> 0]
    ELSE [kind |-> "num", val |-> (a.n \div a.d) * 10000 + Digits(a.n % a.d, a.d, 4).q]

\* round(x, 4): to the nearest multiple of 10^-4, a tie to the even one;
\* nan and inf stay what they are.  The result is in units of 10^-4.
Round4(a) ==
    IF a.kind # "num" THEN [kind |-> a.kind, val |-> 0]
    ELSE LET whole == a.n \div a.d
             frac  == Digits(a.n % a.d, a.d, 4)
             down  == whole * 10000 + frac.q
             up    == IF 2 * frac.r > a.d THEN 1
                      ELSE IF 2 * frac.r = a.d /\ down % 2 = 1 THEN 1
                      ELSE 0
         IN  [kind |-> "num", val |-> down + up]

\* the largest k with k * k <= n
ISqrt(n) == CHOOSE k \in 0..n : k * k <= n /\ (k + 1) * (k + 1) > n

IsSquare(n) == ISqrt(n) * ISqrt(n) = n

\* a point of the pixel grid, in quarter pixels
Quarter(p) == <<4 * p[1], 4 * p[2]>>

\* np.mean(points[[a, b, c, d]], axis=0), in quarter pixels
EyeCenter(pts, idx) ==
    <<pts[idx[1]][1] + pts[idx[2]][1] + pts[idx[3]][1] + pts[idx[4]][1],
      pts[idx[1]][2] + pts[idx[2]][2] + pts[idx[3]][2] + pts[idx[4]][2]>>

SquaredDistance(a, b) == (a[1] - b[1]) * (a[1] - b[1]) + (a[2] - b[2]) * (a[2] - b[2])

\* np.linalg.norm(a - b) of two points given in quarter pixels
Norm(a, b) == Num(ISqrt(SquaredDistance(a, b)), 4)

\* a coordinate given in quarter pixels
Coord(q) == Num(q, 4)

golden_ratio == Num(1618, 1000)

\* "x / face_width" with no guard
UnguardedRatio(x, face_width) == FDiv(x, face_width)

\* "x / face_width if face_width > 0 else 0"
GuardedRatio(x, face_width) == IF FPositive(face_width) THEN FDiv(x, face_width) ELSE Zero

left_eye_idx == <<33, 133, 159, 145>>

right_eye_idx == <<362, 263, 386, 374>>

LandmarkIndices == {1, 10, 13, 33, 70, 133, 145, 152, 159, 172, 234, 263, 300, 362, 374, 386, 397, 454}

\* the midline taken at the left eye centre
center_xAtLeftEye(left_eye_center, right_eye_center) == Coord(left_eye_center[1])

\* center_x = (left_eye_center[0] + right_eye_center[0]) / 2
center_x(left_eye_center, right_eye_center) ==
    Num(left_eye_center[1] + right_eye_center[1], 8)

_calculate_metrics(pts) ==
    LET left_eye_center  == EyeCenter(pts, left_eye_idx)
        right_eye_center == EyeCenter(pts, right_eye_idx)
        nose_tip      == Quarter(pts[1])
        left_face     == Quarter(pts[234])
        right_face    == Quarter(pts[454])
        chin          == Quarter(pts[152])
        forehead      == Quarter(pts[10])
        left_eyebrow  == Quarter(pts[70])
        right_eyebrow == Quarter(pts[300])
        upper_lip     == Quarter(pts[13])
        eye_distance  == Norm(left_eye_center, right_eye_center)
        face_width    == Norm(left_face, right_face)
        face_height   == Norm(forehead, chin)
        left_jaw      == Quarter(pts[172])
        right_jaw     == Quarter(pts[397])
        jaw_width     == Norm(left_jaw, right_jaw)
        left_deviation  == FAbsDiff(Coord(left_eye_center[1]),
                                    center_x(left_eye_center, right_eye_center))
        right_deviation == FAbsDiff(Coord(right_eye_center[1]),
                                    center_x(left_eye_center, right_eye_center))
        facial_symmetry == FDiv(FAbsDiff(left_deviation, right_deviation), face_width)
        face_ratio      == GuardedRatio(face_height, face_width)
        golden_ratio_deviation == FDiv(FAbsDiff(face_ratio, golden_ratio), golden_ratio)
        eye_spacing_ratio   == GuardedRatio(eye_distance, face_width)
        jawline_width_ratio == GuardedRatio(jaw_width, face_width)
        left_brow_to_eye  == FDiv(FAbsDiff(Coord(left_eyebrow[2]), Coord(left_eye_center[2])),
                                  face_height)
        right_brow_to_eye == FDiv(FAbsDiff(Coord(right_eyebrow[2]), Coord(right_eye_center[2])),
                                  face_height)
        brow_to_eye_distance == FDiv(FAdd(left_brow_to_eye, right_brow_to_eye), Num(2, 1))
        lip_to_nose_distance == FDiv(FAbsDiff(Coord(upper_lip[2]), Coord(nose_tip[2])),
                                     face_height)
    IN  [FacialSymmetry       |-> Round4(facial_symmetry),
         GoldenRatioDeviation |-> Round4(golden_ratio_deviation),
         EyeSpacingRatio      |-> Round4(eye_spacing_ratio),
         JawlineWidthRatio    |-> Round4(jawline_width_ratio),
         BrowToEyeDistance    |-> Round4(brow_to_eye_distance),
         LipToNoseDistance    |-> Round4(lip_to_nose_distance)]

(***************************************************************************)
(* The landmark sets of the model.                                         *)
(***************************************************************************)
LeftEyes == {<<<<1, 4>>, <<3, 4>>, <<2, 3>>, <<2, 5>>>>,
             <<<<1, 4>>, <<4, 4>>, <<2, 3>>, <<2, 5>>>>}

RightEyes == {<<<<5, 4>>, <<7, 4>>, <<6, 3>>, <<6, 5>>>>,
              <<<<5, 4>>, <<9, 4>>, <<6, 3>>, <<6, 5>>>>,
              <<<<5, 7>>, <<7, 7>>, <<6, 6>>, <<6, 8>>>>}

RightFaces == {<<0, 4>>, <<8, 4>>, <<6, 12>>, <<3, 8>>}

Chins == {<<4, 0>>, <<4, 10>>, <<8, 3>>}

RightJaws == {<<1, 8>>, <<7, 8>>, <<5, 11>>}

LeftEyebrows == {<<2, 2>>, <<2, 4>>}

UpperLips == {<<4, 7>>, <<4, 5>>}

LandmarkSet(le, re, rf, ch, rj, lb, ul) ==
    [i \in LandmarkIndices |->
        CASE i = 33 -> le[1] [] i = 133 -> le[2] [] i = 159 -> le[3] [] i = 145 -> le[4]
          [] i = 362 -> re[1] [] i = 263 -> re[2] [] i = 386 -> re[3] [] i = 374 -> re[4]
          [] i = 1 -> <<4, 5>>
          [] i = 234 -> <<0, 4>>
          [] i = 454 -> rf
          [] i = 152 -> ch
          [] i = 10 -> <<4, 0>>
          [] i = 70 -> lb
          [] i = 300 -> <<6, 3>>
          [] i = 13 -> ul
          [] i = 172 -> <<1, 8>>
          [] i = 397 -> rj]

\* the four spans are whole numbers of quarter pixels
ExactSpans(pts) ==
    /\ IsSquare(SquaredDistance(EyeCenter(pts, left_eye_idx), EyeCenter(pts, right_eye_idx)))
    /\ IsSquare(SquaredDistance(Quarter(pts[234]), Quarter(pts[454])))
    /\ IsSquare(SquaredDistance(Quarter(pts[10]), Quarter(pts[152])))
    /\ IsSquare(SquaredDistance(Quarter(pts[172]), Quarter(pts[397])))

InitFace ==
    /\ pc = "face_start"
    /\ \E le \in LeftEyes, re \in RightEyes, rf \in RightFaces, ch \in Chins,
          rj \in RightJaws, lb \in LeftEyebrows, ul \in UpperLips :
          /\ points = LandmarkSet(le, re, rf, ch, rj, lb, ul)
          /\ ExactSpans(LandmarkSet(le, re, rf, ch, rj, lb, ul))
    /\ features = <<>>
    /\ variant = "none" /\ missing = {} /\ dummy_dtype = "bool" /\ trainer = "none"
    /\ xcols = <<>> /\ scaler = NoScaler /\ frame_catalog = NoTable
    /\ new_face = <<>> /\ top_k = 1
    /\ RequestIdle
    /\ DemoIdle
    /\ AuxIdle

\* features = self._calculate_metrics(points, w, h)
CalculateMetrics ==
    /\ pc = "face_start"
    /\ features' = _calculate_metrics(points)
    /\ pc' = "face_done"
    /\ UNCHANGED points
    /\ UNCHANGED <<recVars, demoVars, auxVars>>

NextFace == CalculateMetrics

SpecFace == InitFace /\ [][NextFace]_vars

(***************************************************************************)
(* Properties of _calculate_metrics.                                       *)
(***************************************************************************)
ZeroValue == [kind |-> "num", val |-> 0]

\* the spans of the landmark set, taken straight from the points
PixelDistance(a, b) == ISqrt(SquaredDistance(a, b))

FaceWidthPx == PixelDistance(points[234], points[454])

FaceHeightPx == PixelDistance(points[10], points[152])

JawWidthPx == PixelDistance(points[172], points[397])

EyeDistanceQuarterPx ==
    ISqrt(SquaredDistance(EyeCenter(points, left_eye_idx), EyeCenter(points, right_eye_idx)))

\* C5 (as claimed): with a zero face width FacialSymmetry,
\* GoldenRatioDeviation, EyeSpacingRatio and JawlineWidthRatio are exactly 0,
\* and with a zero face height BrowToEyeDistance, LipToNoseDistance and
\* GoldenRatioDeviation are exactly 0.
C5_ZeroSpanRatiosAreZero ==
    pc = "face_done" =>
        /\ FaceWidthPx = 0 =>
              /\ features.FacialSymmetry = ZeroValue
              /\ features.GoldenRatioDeviation = ZeroValue
              /\ features.EyeSpacingRatio = ZeroValue
              /\ features.JawlineWidthRatio = ZeroValue
        /\ FaceHeightPx = 0 =>
              /\ features.BrowToEyeDistance = ZeroValue
              /\ features.LipToNoseDistance = ZeroValue
              /\ features.GoldenRatioDeviation = ZeroValue

\* C6: when the left and right face-contour points (234 and 454) coincide,
\* _calculate_metrics returns EyeSpacingRatio = 0 and JawlineWidthRatio = 0.
C6_ZeroWidthEyeAndJawZero ==
    (pc = "face_done" /\ points[234] = points[454]) =>
        /\ features.EyeSpacingRatio = ZeroValue
        /\ features.JawlineWidthRatio = ZeroValue

\* metrics returned for coinciding contour points and eyes and jaw points
\* that are apart
C6_Witness ==
    /\ pc = "face_done" /\ points[234] = points[454]
    /\ EyeDistanceQuarterPx > 0 /\ JawWidthPx > 0
    /\ features.EyeSpacingRatio = ZeroValue

\* v is the fraction n/d rounded to four decimals: a finite value within
\* half of 10^-4 of n/d
IsRounded(v, n, d) == v.kind = "num" /\ 2 * Abs(n * 10000 - v.val * d) <= d

\* |left deviation - right deviation| of the eye centres from the midline,
\* in eighths of a pixel
SymmetryEighths ==
    LET l == 2 * EyeCenter(points, left_eye_idx)[1]
        r == 2 * EyeCenter(points, right_eye_idx)[1]
        m == EyeCenter(points, left_eye_idx)[1] + EyeCenter(points, right_eye_idx)[1]
    IN  Abs(Abs(l - m) - Abs(r - m))

\* |eyebrow y - eye centre y| of both sides, summed, in quarter pixels
BrowQuarters ==
    Abs(4 * points[70][2] - EyeCenter(points, left_eye_idx)[2])
        + Abs(4 * points[300][2] - EyeCenter(points, right_eye_idx)[2])

\* C7: with non-zero face width and height every returned value is finite
\* and is the closed-form ratio rounded to four decimals, unclipped:
\*   FacialSymmetry       |left dev - right dev| / width
\*   GoldenRatioDeviation |height/width - 1.618| / 1.618
\*   EyeSpacingRatio      eye distance / width
\*   JawlineWidthRatio    jaw width / width
\*   BrowToEyeDistance    mean of |brow y - eye centre y| / height, both sides
\*   LipToNoseDistance    |upper lip y - nose tip y| / height
C7_MetricsMatchClosedForm ==
    (pc = "face_done" /\ FaceWidthPx # 0 /\ FaceHeightPx # 0) =>
        /\ IsRounded(features.FacialSymmetry, SymmetryEighths, 8 * FaceWidthPx)
        /\ IsRounded(features.GoldenRatioDeviation,
                     Abs(1000 * FaceHeightPx - 1618 * FaceWidthPx), 1618 * FaceWidthPx)
        /\ IsRounded(features.EyeSpacingRatio, EyeDistanceQuarterPx, 4 * FaceWidthPx)
        /\ IsRounded(features.JawlineWidthRatio, JawWidthPx, FaceWidthPx)
        /\ IsRounded(features.BrowToEyeDistance, BrowQuarters, 8 * FaceHeightPx)
        /\ IsRounded(features.LipToNoseDistance, Abs(points[13][2] - points[1][2]), FaceHeightPx)

\* metrics of a face with a tilted width span, a ratio that rounds up in
\* the fourth decimal (0.23609...) and a ratio above 1 (jaw 6 px, width 5 px)
C7_Witness ==
    /\ pc = "face_done" /\ FaceWidthPx = 5 /\ FaceHeightPx = 10
    /\ features.GoldenRatioDeviation = [kind |-> "num", val |-> 2361]
    /\ features.JawlineWidthRatio = [kind |-> "num", val |-> 12000]

\* C29: FacialSymmetry is 0 for every landmark set with a non-zero face
\* width, whatever the face: both eye centres are equally far from the mean
\* of their x coordinates.
C29_SymmetryIsAlwaysZero ==
    (pc = "face_done" /\ points[234] # points[454]) =>
        features.FacialSymmetry = ZeroValue

\* C29 witness: a face whose eye centres do not lie evenly about the middle
\* of the face contour, of non-zero width, got FacialSymmetry 0.
C29_Witness ==
    /\ pc = "face_done" /\ points[234] # points[454]
    /\ EyeCenter(points, left_eye_idx)[1] + EyeCenter(points, right_eye_idx)[1]
          # 4 * (points[234][1] + points[454][1])
    /\ features.FacialSymmetry = ZeroValue

(***************************************************************************)
(* demo.py: recommendation_pipeline, the handler of the button.  Gradio    *)
(* runs the handler of one event one call at a time (the concurrency limit *)
(* of an event listener is 1 unless set otherwise, and demo.py does not    *)
(* set it), so the clicks are served one after the other.  Calls that      *)
(* overlap are the subject of SpecPair.                                    *)
(***************************************************************************)
\* what a click can hand over: no image, an image without a face, a face,
\* a face whose contour points coincide
Images == {"None", "blank", "face", "narrow_face"}

\* results.multi_face_landmarks is not empty
HasFace(img) == img \in {"face", "narrow_face"}

\* the points of the landmarks found in an image
LandmarksOf(img) ==
    LandmarkSet(<<<<1, 4>>, <<3, 4>>, <<2, 3>>, <<2, 5>>>>,
                <<<<5, 4>>, <<7, 4>>, <<6, 3>>, <<6, 5>>>>,
                IF img = "face" THEN <<8, 4>> ELSE <<0, 4>>,
                <<4, 10>>, <<7, 8>>, <<2, 2>>, <<4, 7>>)

\* FaceAnalyzer.extract_face_features: None when cv2.imread gives None (no
\* readable file) or when no landmarks are found, else the metrics
extract_face_features(file) ==
    IF file = "absent" THEN "None"
    ELSE IF ~HasFace(file) THEN "None"
    ELSE "dict"

\* as AfterAnalysis, without the test "if face_features is None"
AfterAnalysisWithoutNoneTest(ff, model_exists) ==
    IF ~model_exists THEN "no_model" ELSE "recommend"

\* what recommendation_pipeline does with the result of extract_face_features
AfterAnalysis(ff, model_exists) ==
    IF ff = "None" THEN "no_face"
    ELSE IF ~model_exists THEN "no_model"
    ELSE "recommend"

\* what the call recommend(face_features, model_path, top_k=5) can end in:
\* a ranking, or one of the exceptions of recommend
RecommendResults ==
    {[raised |-> "", top |-> t] : t \in {<<"A">>, <<"B", "A">>}}
        \cup {[raised |-> e, top |-> <<>>] : e \in {"FileNotFoundError", "ValueError"}}

\* The server starts with or without models/regressor.joblib and with or
\* without a temp_upload.jpg in its working directory (one that a run killed
\* before its "finally" left behind).
InitDemo ==
    /\ pc = "demo_idle"
    /\ missing \in SUBSET {ModelFile}
    /\ variant = "none" /\ dummy_dtype = "bool" /\ trainer = "none"
    /\ xcols = <<>> /\ scaler = NoScaler /\ frame_catalog = NoTable
    /\ new_face = <<>> /\ top_k = 1
    /\ RequestIdle
    /\ FaceIdle
    /\ image = "unset" /\ extracted = "unset" /\ recommend_calls = 0 /\ outputs = NoOutputs
    /\ temp_upload \in {"absent"} \cup (Images \ {"None"})
    /\ AuxIdle

\* lines 24-30: "if image is None: return ..."; cv2.imwrite(temp_path, ...),
\* which returns False without raising when it cannot write the file
DemoClick ==
    /\ pc = "demo_idle"
    /\ \E img \in Images :
          /\ image' = img
          /\ IF img = "None"
             THEN /\ outputs' = [kind |-> "please_upload", analysis |-> FALSE,
                                 ranking |-> <<>>, error |-> ""]
                  /\ pc' = "demo_returned"
                  /\ UNCHANGED temp_upload
             ELSE /\ \E written \in BOOLEAN :
                        temp_upload' = IF written THEN img ELSE temp_upload
                  /\ pc' = "demo_saved"
                  /\ UNCHANGED outputs
    /\ UNCHANGED <<extracted, recommend_calls>>
    /\ UNCHANGED <<recVars, faceVars, auxVars>>

\* line 34: face_features = extract_face_features(str(temp_path))
DemoExtract ==
    /\ pc = "demo_saved"
    /\ extracted' = extract_face_features(temp_upload)
    /\ IF extract_face_features(temp_upload) = "dict"
       THEN /\ points' = LandmarksOf(temp_upload)
            /\ features' = _calculate_metrics(LandmarksOf(temp_upload))
       ELSE UNCHANGED faceVars
    /\ pc' = "demo_analysed"
    /\ UNCHANGED <<image, temp_upload, recommend_calls, outputs>>
    /\ UNCHANGED <<recVars, auxVars>>

\* lines 36-37: "if face_features is None: return <no face detected>, ''"
DemoNoFace ==
    /\ pc = "demo_analysed"
    /\ AfterAnalysis(extracted, ModelFile \notin missing) = "no_face"
    /\ outputs' = [kind |-> "no_face", analysis |-> FALSE, ranking |-> <<>>, error |-> ""]
    /\ pc' = "demo_finally"
    /\ UNCHANGED <<image, temp_upload, extracted, recommend_calls>>
    /\ UNCHANGED <<recVars, faceVars, auxVars>>

\* lines 52-54: "if not model_path.exists(): return analysis_text, <model not found>"
DemoNoModel ==
    /\ pc = "demo_analysed"
    /\ AfterAnalysis(extracted, ModelFile \notin missing) = "no_model"
    /\ outputs' = [kind |-> "no_model", analysis |-> TRUE, ranking |-> <<>>,
                   error |-> "Model not found"]
    /\ pc' = "demo_finally"
    /\ UNCHANGED <<image, temp_upload, extracted, recommend_calls>>
    /\ UNCHANGED <<recVars, faceVars, auxVars>>

\* lines 56-88: recommendations = recommend(...), the ranking formatted into
\* the text, or "except Exception as e: return analysis_text, <error>"
DemoRecommend ==
    /\ pc = "demo_analysed"
    /\ AfterAnalysis(extracted, ModelFile \notin missing) = "recommend"
    /\ recommend_calls' = recommend_calls + 1
    /\ \E res \in RecommendResults :
          outputs' = IF res.raised # ""
                     THEN [kind |-> "recommend_error", analysis |-> TRUE,
                           ranking |-> <<>>, error |-> res.raised]
                     ELSE [kind |-> "recommended", analysis |-> TRUE,
                           ranking |-> res.top, error |-> ""]
    /\ pc' = "demo_finally"
    /\ UNCHANGED <<image, temp_upload, extracted>>
    /\ UNCHANGED <<recVars, faceVars, auxVars>>

\* lines 93-96: "finally: if temp_path.exists(): temp_path.unlink()"
DemoFinally ==
    /\ pc = "demo_finally"
    /\ temp_upload' = "absent"
    /\ pc' = "demo_returned"
    /\ UNCHANGED <<image, extracted, recommend_calls, outputs>>
    /\ UNCHANGED <<recVars, faceVars, auxVars>>

\* the handler has returned; the server waits for the next click
DemoNextClick ==
    /\ pc = "demo_returned"
    /\ pc' = "demo_idle"
    /\ image' = "unset" /\ extracted' = "unset" /\ recommend_calls' = 0
    /\ outputs' = NoOutputs
    /\ points' = <<>> /\ features' = <<>>
    /\ UNCHANGED temp_upload
    /\ UNCHANGED <<recVars, auxVars>>

NextDemo ==
    DemoClick \/ DemoExtract \/ DemoNoFace \/ DemoNoModel \/ DemoRecommend
        \/ DemoFinally \/ DemoNextClick

SpecDemo == InitDemo /\ [][NextDemo]_vars

(***************************************************************************)
(* Properties of recommendation_pipeline.                                  *)
(***************************************************************************)
\* C18: when no face is found in the file handed to extract_face_features
\* (no landmarks, or no readable image), it yields None, and a request whose
\* face_features is None ends there: it returns the "no face" message,
\* recommend was not called and no ranking is in what it returns.
C18_NoFaceEndsRequest ==
    /\ (pc = "demo_analysed" /\ ~HasFace(temp_upload)) => extracted = "None"
    /\ (pc \in {"demo_analysed", "demo_finally", "demo_returned"} /\ extracted = "None") =>
          /\ recommend_calls = 0
          /\ outputs.ranking = <<>>
          /\ pc # "demo_analysed" => (outputs.kind = "no_face" /\ ~outputs.analysis)

\* a returned request for an image without a face, the model file being
\* there
C18_Witness ==
    /\ pc = "demo_returned" /\ image = "blank" /\ extracted = "None"
    /\ ModelFile \notin missing
    /\ outputs.kind = "no_face"


\* the answer with its entries rearranged by the permutation p
Permuted(p) == [j \in DOMAIN response |-> response[p[j]]]

\* p keeps the entries of one FrameID (as text) in their order
KeepsDuplicateOrder(p) ==
    \A i, j \in DOMAIN response :
        (i < j /\ response[p[i]].FrameID.text = response[p[j]].FrameID.text) => p[i] < p[j]

\* the entries of the answer whose FrameID, as text, is that of a catalog row
KnownEntries ==
    SelectSeq(response, LAMBDA item :
        \E r \in 1..RowCount : item.FrameID.text = FrameKey(frame_catalog.rows[r]["FrameID"]))

LastEntryOf(cell) == CHOOSE j \in EntriesOf(cell) : \A l \in EntriesOf(cell) : l <= j

KeyedScores ==
    /\ score_frames(frame_catalog, KnownEntries) = preds
    /\ \A r \in 1..RowCount :
          EntriesOf(frame_catalog.rows[r]["FrameID"]) # {} =>
             preds[r] = PyInt(response[LastEntryOf(frame_catalog.rows[r]["FrameID"])].score)

\* C30 (as claimed): the remote scores go to the catalog rows by FrameID
\* compared as text: every permutation of the answer gives the same scores,
\* entries of unknown FrameIDs change nothing, and of several entries of one
\* FrameID the last one gives the score.
C30_ScoresKeyedAnyPermutation ==
    (Remote /\ pc \in {"remote_scored", "done"}) =>
        /\ \A p \in Perms(Len(response)) :
              score_frames(frame_catalog, Permuted(p)) = preds
        /\ KeyedScores

\* C30 (amended): as claimed, for every permutation of the answer that
\* keeps the entries of one FrameID in their order (every permutation, when
\* no FrameID occurs twice).
C30_ScoresKeyedOrderOfDuplicatesKept ==
    (Remote /\ pc \in {"remote_scored", "done"}) =>
        /\ \A p \in Perms(Len(response)) :
              KeepsDuplicateOrder(p) => score_frames(frame_catalog, Permuted(p)) = preds
        /\ KeyedScores

\* C30 witness: a catalog of int FrameIDs 101, 102 scored from an answer
\* that names 101 twice, as the string "101" and then as the number 101,
\* with different scores, and does not name 102.
C30_Witness ==
    /\ Remote /\ pc = "done" /\ RowCount = 2
    /\ frame_catalog.dtype["FrameID"] = "int64"
    /\ Len(response) = 2
    /\ response[1].FrameID = [json |-> "string", text |-> "101"]
    /\ response[2].FrameID = [json |-> "number", text |-> "101"]
    /\ response[1].score # response[2].score
    /\ preds[1] = PyInt(response[2].score)
    /\ preds[2] = 0

\* the cell the scorer's matrix holds before standardisation
MatrixCell(i, k) ==
    IF pc \in {"scaled", "predicted", "done"} /\ scaler.present
       /\ k \in SeqToSet(numeric_cols)
    THEN combined_encoded.rows[i][k][2]
    ELSE combined_encoded.rows[i][k]

\* C24: the combined table has one row per catalog record, row i holding the
\* face metrics unchanged next to catalog row i; encoding, alignment and
\* scaling keep the rows and their order; the score written to row i is the
\* scorer's i-th output.
C24_RowPairingPreserved ==
    Local =>
        /\ pc \in {"built", "aligned", "scaled", "predicted", "done"} =>
              /\ DOMAIN combined.rows = DOMAIN frame_catalog.rows
              /\ DOMAIN built.rows = DOMAIN frame_catalog.rows
              /\ \A i \in DOMAIN frame_catalog.rows :
                    /\ \A k \in DOMAIN new_face : combined.rows[i][k] = new_face[k]
                    /\ \A k \in SeqToSet(frame_catalog.cols) :
                          combined.rows[i][k] = frame_catalog.rows[i][k]
                    /\ built.rows[i]["FrameID"] = frame_catalog.rows[i]["FrameID"]
        /\ pc = "built" =>
              \A i \in DOMAIN frame_catalog.rows :
                 \A k \in SeqToSet(built.cols) \ SeqToSet(combined.cols) :
                    built.rows[i][k] = 1
                        <=> k = "Brand_" \o frame_catalog.rows[i]["Brand"]
        /\ pc \in {"aligned", "scaled", "predicted", "done"} =>
              DOMAIN combined_encoded.rows = DOMAIN frame_catalog.rows
        /\ pc \in {"aligned", "scaled"} =>
              \A i \in DOMAIN frame_catalog.rows :
                 \A k \in SeqToSet(xcols) \cap SeqToSet(built.cols) :
                    MatrixCell(i, k) = built.rows[i][k]
        /\ pc \in {"predicted", "done"} =>
              /\ DOMAIN preds = DOMAIN frame_catalog.rows
              /\ \A i \in DOMAIN frame_catalog.rows :
                    combined.rows[i]["PredictedBeautyScore"] = preds[i]

\* C24 witness: three catalog rows with two brands and two widths went
\* through encoding, alignment, scaling and scoring, with unequal scores.
C24_Witness ==
    /\ Local /\ pc = "done" /\ RowCount = 3
    /\ scaler.present
    /\ frame_catalog.rows[1]["Brand"] # frame_catalog.rows[2]["Brand"]
    /\ frame_catalog.rows[1]["Width_mm"] # frame_catalog.rows[3]["Width_mm"]
    /\ "Width_mm" \in SeqToSet(numeric_cols)
    /\ preds[1] # preds[3]
    /\ combined.rows[3]["PredictedBeautyScore"] = preds[3]

\* C25: the result of recommend holds, per record, FrameID, those of Brand,
\* Shape and Color that the catalog has, and the score, and nothing else;
\* the records are ordered by the unrounded scores, which are returned as
\* the scorer gave them.
C25_DisplayColumnsAndUnroundedSort ==
    pc = "done" =>
        /\ \A i \in DOMAIN top :
              /\ DOMAIN top[i] = {"FrameID", "PredictedBeautyScore"}
                                 \cup ({"Brand", "Shape", "Color"} \cap SeqToSet(frame_catalog.cols))
              /\ top[i]["PredictedBeautyScore"] = preds[order[i]]
              /\ top[i]["FrameID"] = frame_catalog.rows[order[i]]["FrameID"]
        /\ \A i, j \in DOMAIN top :
              i < j => top[i]["PredictedBeautyScore"] >= top[j]["PredictedBeautyScore"]
        /\ \A i \in DOMAIN top : \A r \in DOMAIN preds :
              preds[r] > top[i]["PredictedBeautyScore"] =>
                 \E j \in DOMAIN top : j < i /\ order[j] = r

\* C25 witness: two records whose scores print alike (3.001) were returned
\* with the higher true score first, against catalog order.
C25_Witness ==
    /\ Local /\ pc = "done" /\ Len(top) >= 2
    /\ top[1]["PredictedBeautyScore"] > top[2]["PredictedBeautyScore"]
    /\ Format3f(top[1]["PredictedBeautyScore"]) = Format3f(top[2]["PredictedBeautyScore"])
    /\ order[1] > order[2]

(***************************************************************************)
(* create_interaction_features as a function of its input table: the       *)
(* table holds FrameID and any subset of the face and frame columns.       *)
(***************************************************************************)
InteractRows == 2

\* the cell of column c in row i: face ratios in 10^-4, frame sizes in mm
CellValue(c, i) ==
    CASE c = "FrameID"              -> FrameIds[i]
      [] c = "FacialSymmetry"       -> 100 + i
      [] c = "GoldenRatioDeviation" -> 200 + 3 * i
      [] c = "EyeSpacingRatio"      -> 4200 + 10 * i
      [] c = "JawlineWidthRatio"    -> 8100 - 10 * i
      [] c = "BrowToEyeDistance"    -> 1500 + i
      [] c = "LipToNoseDistance"    -> 900 - i
      [] c = "Width_mm"             -> 50
      [] c = "LensHeight_mm"        -> 40 + i
      [] c = "LensWidth_mm"         -> 52 - i
      [] c = "NoseBridgeWidth_mm"   -> 18
      [] c = "TempleLength_mm"      -> 140 + 5 * i

\* a table of FrameID, the face columns faces and the frame columns frames,
\* whose first row has width w
InteractTable(faces, frames, w) ==
    LET cols == <<"FrameID">>
                \o SelectSeq(face_features, LAMBDA c : c \in faces)
                \o SelectSeq(frame_features, LAMBDA c : c \in frames)
    IN  [cols  |-> cols,
         dtype |-> [k \in SeqToSet(cols) |->
                      IF k = "FrameID" THEN "object"
                      ELSE IF k \in SeqToSet(frame_features) THEN "int64"
                      ELSE "float64"],
         rows  |-> [i \in 1..InteractRows |->
                      [k \in SeqToSet(cols) |->
                          IF k = "Width_mm" /\ i = 1 THEN w ELSE CellValue(k, i)]]]

InteractTables ==
    { InteractTable(faces, frames, w) :
        faces \in SUBSET SeqToSet(face_features),
        frames \in SUBSET SeqToSet(frame_features),
        w \in Widths }

InitInteract ==
    /\ pc = "table"
    /\ NoRequest
    /\ FaceIdle
    /\ DemoIdle
    /\ df_in \in InteractTables
    /\ df_out = NoTable /\ df_train_out = NoTable /\ df_dummies = NoTable
    /\ ScrapeIdle
    /\ PairIdle

\* both builders called on the same table; each works on df.copy()
CreateInteractionFeatures ==
    /\ pc = "table"
    /\ df_out' = create_interaction_features(df_in)
    /\ df_train_out' = train_create_interaction_features(df_in)
    /\ pc' = "featured"
    /\ UNCHANGED <<recVars, faceVars, demoVars, df_in, df_dummies, scrapeVars, pairVars>>

NextInteract == CreateInteractionFeatures

SpecInteract == InitInteract /\ [][NextInteract]_vars

\* C21: the inference-time and the training-time create_interaction_features
\* add the same column names, in the same order, with the same values, for
\* every input table.
C21_BuildersAgree ==
    pc = "featured" =>
        /\ df_out.cols = df_train_out.cols
        /\ df_out.dtype = df_train_out.dtype
        /\ df_out.rows = df_train_out.rows

\* C21 witness: a table with all six face and five frame columns and a zero
\* width went through both builders.
C21_Witness ==
    /\ pc = "featured"
    /\ Len(df_in.cols) = 12
    /\ df_in.rows[1]["Width_mm"] = 0
    /\ Len(df_out.cols) = 44
    /\ Len(df_train_out.cols) = 44

PresentFace(df) == {c \in SeqToSet(face_features) : HasCol(df, c)}
PresentFrame(df) == {c \in SeqToSet(frame_features) : HasCol(df, c)}

RatioCols(df) ==
    IF HasCol(df, "Width_mm")
    THEN {"EyeToFrameWidth" : x \in {"EyeSpacingRatio"} \cap SeqToSet(df.cols)}
         \cup {"JawToFrameWidth" : x \in {"JawlineWidthRatio"} \cap SeqToSet(df.cols)}
    ELSE {}

InteractionPost(before, after) ==
    /\ \A a \in PresentFace(before), g \in PresentFrame(before) :
          /\ HasCol(after, a \o "_x_" \o g)
          /\ \A i \in DOMAIN before.rows :
                after.rows[i][a \o "_x_" \o g] = before.rows[i][a] * before.rows[i][g]
    /\ Len(after.cols) = Len(before.cols)
                         + Cardinality(PresentFace(before)) * Cardinality(PresentFrame(before))
                         + Cardinality(RatioCols(before))
    /\ \A r \in RatioCols(before) :
          /\ HasCol(after, r)
          /\ \A i \in DOMAIN before.rows :
                after.rows[i][r] * Max(before.rows[i]["Width_mm"], 1)
                    = 100 * before.rows[i][IF r = "EyeToFrameWidth"
                                           THEN "EyeSpacingRatio"
                                           ELSE "JawlineWidthRatio"]
    /\ SubSeq(after.cols, 1, Len(before.cols)) = before.cols
    /\ DOMAIN after.rows = DOMAIN before.rows
    /\ \A i \in DOMAIN before.rows : \A k \in SeqToSet(before.cols) :
          after.rows[i][k] = before.rows[i][k]

\* C22: create_interaction_features adds the product column <face>_x_<frame>
\* for every face ratio and frame dimension present (30 when all are), adds
\* EyeToFrameWidth and JawToFrameWidth as ratio * 100 / max(Width_mm, 1),
\* adds nothing else, and leaves the pre-existing columns and the caller's
\* table as they were.
C22_InteractionColumns ==
    [][(pc = "table" /\ pc' = "featured") =>
          /\ df_in' = df_in
          /\ InteractionPost(df_in, df_out')]_vars

\* C22 witness: all 30 products and both ratios were added to a table whose
\* first width is 0, so that the division used the lower bound 1.
C22_Witness ==
    /\ pc = "featured"
    /\ Cardinality(PresentFace(df_in)) * Cardinality(PresentFrame(df_in)) = 30
    /\ df_in.rows[1]["Width_mm"] = 0
    /\ df_out.rows[1]["EyeToFrameWidth"] = 100 * df_in.rows[1]["EyeSpacingRatio"]
    /\ Len(df_out.cols) = Len(df_in.cols) + 32


(***************************************************************************)
(* pd.get_dummies as recommend calls it, as a function of the combined     *)
(* table: FrameID, Shape and any subset of the five nominal columns, each  *)
(* with one or two observed values; the first row may miss a value.        *)
(***************************************************************************)
NominalValues(c) ==
    CASE c = "Brand"      -> <<"Acme", "RayBan">>
      [] c = "Material"   -> <<"Metal", "Plastic">>
      [] c = "RimStyle"   -> <<"Full", "Rimless">>
      [] c = "BridgeType" -> <<"Keyhole", "Saddle">>
      [] c = "Color"      -> <<"Black", "Gold">>

\* the columns a nominal attribute can be: one value per row, the first row
\* possibly missing, the last row the attribute's first value
NominalColumns(c) ==
    { col \in [1..InteractRows -> SeqToSet(NominalValues(c)) \cup {Null}] :
        /\ col[InteractRows] = NominalValues(c)[1]
        /\ \A i \in 2..InteractRows : col[i] # Null }

\* ... or the attribute is not a column of the catalog (<<>>)
NominalOptions(c) == NominalColumns(c) \cup {<<>>}

NominalTable(present, cells) ==
    LET cols == <<"FrameID", "Shape">> \o SelectSeq(categorical_cols, LAMBDA c : c \in present)
    IN  [cols  |-> cols,
         dtype |-> [k \in SeqToSet(cols) |-> "object"],
         rows  |-> [i \in 1..InteractRows |->
                      [k \in SeqToSet(cols) |->
                          IF k = "FrameID" THEN FrameIds[i]
                          ELSE IF k = "Shape" THEN "Round"
                          ELSE cells[k][i]]]]

InitEncode ==
    /\ pc = "nominal"
    /\ variant = "none" /\ missing = {} /\ trainer = "none"
    /\ dummy_dtype \in {"bool", "uint8"}
    /\ xcols = <<>> /\ scaler = NoScaler /\ frame_catalog = NoTable
    /\ new_face = <<>> /\ top_k = 1
    /\ RequestIdle
    /\ FaceIdle
    /\ DemoIdle
    /\ \E brand \in NominalOptions("Brand"), material \in NominalOptions("Material"),
          rim \in NominalOptions("RimStyle"), bridge \in NominalOptions("BridgeType"),
          color \in NominalOptions("Color") :
          LET cells == [c \in SeqToSet(categorical_cols) |->
                          CASE c = "Brand"      -> brand
                            [] c = "Material"   -> material
                            [] c = "RimStyle"   -> rim
                            [] c = "BridgeType" -> bridge
                            [] c = "Color"      -> color]
          IN  df_in = NominalTable({c \in SeqToSet(categorical_cols) : cells[c] # <<>>}, cells)
    /\ df_out = NoTable /\ df_train_out = NoTable /\ df_dummies = NoTable
    /\ ScrapeIdle
    /\ PairIdle

\* combined_encoded = pd.get_dummies(combined, columns=[...], drop_first=False)
EncodeCategoricals ==
    /\ pc = "nominal"
    /\ df_dummies' = Encode(df_in, dummy_dtype)
    /\ pc' = "encoded"
    /\ UNCHANGED <<recVars, faceVars, demoVars, df_in, df_out, df_train_out, scrapeVars, pairVars>>

NextEncode == EncodeCategoricals

SpecEncode == InitEncode /\ [][NextEncode]_vars

PresentNominal(df) ==
    {c \in {"Brand", "Material", "RimStyle", "BridgeType", "Color"} : HasCol(df, c)}

Observed(df, c) == {df.rows[i][c] : i \in DOMAIN df.rows} \ {Null}

RECURSIVE SumOver(_, _, _)
SumOver(df, cs, n) ==
    IF cs = {} THEN n
    ELSE LET c == CHOOSE x \in cs : TRUE
         IN  SumOver(df, cs \ {c}, n + Cardinality(Observed(df, c)))

\* C23: get_dummies turns every nominal column present into one indicator
\* per distinct observed value, named <column>_<value>, drops no level, and
\* every row with a value has exactly that value's indicator set and the
\* attribute's other indicators 0.
C23_OneIndicatorPerObservedValue ==
    pc = "encoded" =>
        /\ \A c \in PresentNominal(df_in) : \A v \in Observed(df_in, c) :
              HasCol(df_dummies, c \o "_" \o v)
        /\ SeqToSet(df_dummies.cols) \ SeqToSet(df_in.cols)
              = UNION {{c \o "_" \o v : v \in Observed(df_in, c)} : c \in PresentNominal(df_in)}
        /\ Len(df_dummies.cols) = Len(df_in.cols) - Cardinality(PresentNominal(df_in))
                                  + SumOver(df_in, PresentNominal(df_in), 0)
        /\ DOMAIN df_dummies.rows = DOMAIN df_in.rows
        /\ \A i \in DOMAIN df_in.rows : \A c \in PresentNominal(df_in) :
              df_in.rows[i][c] # Null =>
                 \A v \in Observed(df_in, c) :
                    df_dummies.rows[i][c \o "_" \o v]
                        = IF v = df_in.rows[i][c] THEN 1 ELSE 0

\* C23 witness: all five nominal columns were encoded, Brand with two
\* observed values and a missing one, Color with a single observed value.
C23_Witness ==
    /\ pc = "encoded"
    /\ PresentNominal(df_in) = {"Brand", "Material", "RimStyle", "BridgeType", "Color"}
    /\ df_in.rows[1]["Brand"] = Null
    /\ Observed(df_in, "Color") = {"Black"}
    /\ Cardinality(Observed(df_in, "Material")) = 2
    /\ HasCol(df_dummies, "Color_Black")
    /\ HasCol(df_dummies, "Material_Plastic")


(***************************************************************************)
(* scraper.py: AmericasBestScraper.get_page and find_glasses_pages.  A     *)
(* request either returns a response that passes raise_for_status or       *)
(* raises requests.RequestException; a listing page holds product links or *)
(* not, and a next-page indicator or not.                                  *)
(***************************************************************************)
MaxRetries == 3

\* the model follows the crawl up to this page number
MaxPages == 52

DefaultRetries == 3

SafetyLimit == 50

PageDelay == 2

\* time.sleep(2 ** (attempt + 1))
BackoffFromTwo(n) == 2 ^ (n + 1)

\* time.sleep(2 ** attempt)
Backoff(n) == 2 ^ n

\* the locals of a get_page call before its first request
StartGetPage(n) ==
    /\ retries' = n
    /\ attempt' = 0
    /\ outcomes' = <<>>
    /\ waits' = <<>>
    /\ gp_result' = "unset"

InitScrape ==
    /\ pc = "request"
    /\ NoRequest
    /\ FaceIdle
    /\ DemoIdle
    /\ InterIdle
    /\ PairIdle
    /\ caller \in {"direct", "find_glasses_pages"}
    /\ retries \in IF caller = "direct" THEN 1..MaxRetries ELSE {DefaultRetries}
    /\ attempt = 0 /\ outcomes = <<>> /\ waits = <<>> /\ gp_result = "unset"
    /\ page_num = 0 /\ products_found = 0 /\ has_next_page = FALSE
    /\ glasses_urls = {} /\ pause = 0

\* one pass of the for loop of get_page: the request, and on an exception
\* the warning and either the sleep or the final return None
GetPageAttempt ==
    /\ pc = "request"
    /\ attempt < retries
    /\ \E ok \in BOOLEAN :
          /\ outcomes' = Append(outcomes, ok)
          /\ IF ok
             THEN /\ gp_result' = "response"
                  /\ pc' = "fetched"
                  /\ UNCHANGED <<attempt, waits>>
             ELSE IF attempt < retries - 1
                  THEN /\ waits' = Append(waits, Backoff(attempt))
                       /\ attempt' = attempt + 1
                       /\ pc' = "request"
                       /\ UNCHANGED gp_result
                  ELSE /\ gp_result' = "None"
                       /\ pc' = "fetched"
                       /\ UNCHANGED <<attempt, waits>>
    /\ UNCHANGED <<caller, retries, page_num, products_found, has_next_page, glasses_urls, pause>>
    /\ UNCHANGED <<recVars, faceVars, demoVars, interVars, pairVars>>

\* "if not response: break", then the return of the collected links
ListingFailed ==
    /\ pc = "fetched"
    /\ caller = "find_glasses_pages"
    /\ gp_result = "None"
    /\ pc' = "returned"
    /\ UNCHANGED scrapeVars
    /\ UNCHANGED <<recVars, faceVars, demoVars, interVars, pairVars>>

\* the rest of the loop body for a fetched listing page with found product
\* links and with or without a next-page indicator (next), up to the
\* get_page call of the following pass
ListingParsed ==
    /\ pc = "fetched"
    /\ caller = "find_glasses_pages"
    /\ gp_result = "response"
    /\ \E found \in {0, 1}, next \in BOOLEAN :
          /\ products_found' = found
          /\ has_next_page' = next
          /\ glasses_urls' = IF found > 0 THEN glasses_urls \cup {page_num} ELSE glasses_urls
          /\ IF found = 0
             THEN /\ pc' = "returned"
                  /\ UNCHANGED <<page_num, pause, retries, attempt, outcomes, waits, gp_result>>
             ELSE IF ~next /\ page_num < SafetyLimit
                  THEN /\ page_num < MaxPages
                       /\ page_num' = page_num + 1
                       /\ pause' = 0
                       /\ StartGetPage(DefaultRetries)
                       /\ pc' = "request"
                  ELSE IF next
                       THEN /\ page_num < MaxPages
                            /\ page_num' = page_num + 1
                            /\ pause' = PageDelay
                            /\ StartGetPage(DefaultRetries)
                            /\ pc' = "request"
                       ELSE /\ pc' = "returned"
                            /\ UNCHANGED <<page_num, pause, retries, attempt, outcomes, waits, gp_result>>
    /\ UNCHANGED caller
    /\ UNCHANGED <<recVars, faceVars, demoVars, interVars, pairVars>>

NextScrape == GetPageAttempt \/ ListingFailed \/ ListingParsed

SpecScrape == InitScrape /\ [][NextScrape]_vars

Failures(os) == Cardinality({i \in DOMAIN os : ~os[i]})

\* C26: get_page with retries = n >= 1 issues at most n requests, returns
\* the first response that succeeds and requests nothing after it, sleeps
\* 1, 2, 4, ... seconds between a failed attempt and the next and not after
\* the last, and returns None exactly when all n attempts failed.
C26_GetPageRetries ==
    caller \in {"direct", "find_glasses_pages"} =>
        /\ Len(outcomes) <= retries
        /\ gp_result = "response" <=>
              /\ outcomes # <<>>
              /\ outcomes[Len(outcomes)]
        /\ \A i \in DOMAIN outcomes : outcomes[i] => i = Len(outcomes)
        /\ gp_result = "None" <=> (Len(outcomes) = retries /\ Failures(outcomes) = retries)
        /\ Len(waits) = Min(Failures(outcomes), retries - 1)
        /\ \A i \in DOMAIN waits : waits[i] = IF i = 1 THEN 1 ELSE 2 * waits[i - 1]
        /\ gp_result = "unset" <=> pc = "request"

\* C26 witness: a direct call with three retries failed three times, slept
\* 1 and 2 seconds and returned None.
C26_Witness ==
    /\ caller = "direct" /\ retries = 3 /\ pc = "fetched"
    /\ outcomes = <<FALSE, FALSE, FALSE>>
    /\ waits = <<1, 2>>
    /\ gp_result = "None"

\* C26 witness of the other return: the third request succeeded.
C26_WitnessResponse ==
    /\ caller = "direct" /\ retries = 3 /\ pc = "fetched"
    /\ outcomes = <<FALSE, FALSE, TRUE>>
    /\ waits = <<1, 2>>
    /\ gp_result = "response"

\* C27: the pagination loop of find_glasses_pages ends by a failed fetch, a
\* page without product links or the safety limit: no listing page beyond
\* the limit of 50 is ever requested, whatever the pages hold.
C27_CrawlEndsAtSafetyLimit ==
    caller = "find_glasses_pages" => page_num <= SafetyLimit


(***************************************************************************)
(* Two calls of recommendation_pipeline in flight at once, as the claim on *)
(* simultaneous requests supposes (worker threads of the server, or a      *)
(* second server started in the same directory).  Each call has its own    *)
(* locals; temp_upload.jpg is the one file both name.                      *)
(***************************************************************************)
Requests == {1, 2}

NewSession ==
    [pc |-> "idle", image |-> "unset", wrote |-> FALSE, read |-> "unset",
     extracted |-> "unset", kind |-> "unset"]

InitPair ==
    /\ pc = "pair"
    /\ missing \in SUBSET {ModelFile}
    /\ variant = "none" /\ dummy_dtype = "bool" /\ trainer = "none"
    /\ xcols = <<>> /\ scaler = NoScaler /\ frame_catalog = NoTable
    /\ new_face = <<>> /\ top_k = 1
    /\ RequestIdle
    /\ FaceIdle
    /\ image = "unset" /\ extracted = "unset" /\ recommend_calls = 0 /\ outputs = NoOutputs
    /\ temp_upload = "absent"
    /\ InterIdle
    /\ ScrapeIdle
    /\ sessions = [r \in Requests |-> NewSession]

\* lines 24-30 of call r: "if image is None: return ..."; cv2.imwrite
PairClick(r) ==
    /\ sessions[r].pc = "idle"
    /\ \E img \in Images :
          IF img = "None"
          THEN /\ sessions' = [sessions EXCEPT ![r].image = img,
                                               ![r].kind = "please_upload",
                                               ![r].pc = "returned"]
               /\ UNCHANGED temp_upload
          ELSE \E written \in BOOLEAN :
                  /\ temp_upload' = IF written THEN img ELSE temp_upload
                  /\ sessions' = [sessions EXCEPT ![r].image = img,
                                                  ![r].wrote = written,
                                                  ![r].pc = "saved"]
    /\ UNCHANGED <<pc, image, extracted, recommend_calls, outputs>>
    /\ UNCHANGED <<recVars, faceVars, interVars, scrapeVars>>

\* line 34 of call r: extract_face_features(str(temp_path)) reads the file
\* that is at the path now
PairExtract(r) ==
    /\ sessions[r].pc = "saved"
    /\ sessions' = [sessions EXCEPT ![r].read = temp_upload,
                                    ![r].extracted = extract_face_features(temp_upload),
                                    ![r].pc = "analysed"]
    /\ UNCHANGED <<pc, demoVars>>
    /\ UNCHANGED <<recVars, faceVars, interVars, scrapeVars>>

\* lines 36-91 of call r: the return value is chosen
PairReturn(r) ==
    /\ sessions[r].pc = "analysed"
    /\ LET after == AfterAnalysis(sessions[r].extracted, ModelFile \notin missing)
       IN  IF after = "recommend"
           THEN \E res \in RecommendResults :
                   sessions' = [sessions EXCEPT
                                   ![r].kind = IF res.raised # "" THEN "recommend_error"
                                               ELSE "recommended",
                                   ![r].pc = "finally"]
           ELSE sessions' = [sessions EXCEPT ![r].kind = after, ![r].pc = "finally"]
    /\ UNCHANGED <<pc, demoVars>>
    /\ UNCHANGED <<recVars, faceVars, interVars, scrapeVars>>

\* lines 93-96 of call r: "finally: if temp_path.exists(): temp_path.unlink()"
PairFinally(r) ==
    /\ sessions[r].pc = "finally"
    /\ temp_upload' = "absent"
    /\ sessions' = [sessions EXCEPT ![r].pc = "returned"]
    /\ UNCHANGED <<pc, image, extracted, recommend_calls, outputs>>
    /\ UNCHANGED <<recVars, faceVars, interVars, scrapeVars>>

NextPair ==
    \E r \in Requests : PairClick(r) \/ PairExtract(r) \/ PairReturn(r) \/ PairFinally(r)

SpecPair == InitPair /\ [][NextPair]_vars

\* C28: of two calls of recommendation_pipeline running at the same time,
\* each analyses the image it wrote itself: what a call reads from
\* temp_upload.jpg after writing it is its own image, not another call's
\* image and not a deleted file.
C28_RequestsDoNotInterfere ==
    pc = "pair" =>
        \A r \in Requests :
            (sessions[r].wrote /\ sessions[r].read # "unset")
                => sessions[r].read = sessions[r].image

====
